---------------------------- MODULE Spec2Model ----------------------------
(***************************************************************************)
(* Model of the MQ <-> WebSocket message bus bridge (mq2wsbridge.py,       *)
(* mqhandler.py, wshandler.py, metricshandler.py).                         *)
(*                                                                         *)
(* Threads: the supervisor (main), the interrupter, the broker worker      *)
(* (MQ_thread), the WebSocket worker (ws_thread or wsstub_thread).  The    *)
(* broker, the remote WebSocket endpoint and the operating system's        *)
(* signals are the environment.  Time is abstracted: a sleep is a step     *)
(* that may be overtaken by any other thread, a timeout may elapse at any  *)
(* moment.                                                                 *)
(***************************************************************************)
EXTENDS Integers, Sequences, FiniteSets, TLC

-----------------------------------------------------------------------------
(* Bounds of the model *)

\* messages waiting on Q_IN
MaxMsgs == 2
\* frames the remote WebSocket endpoint sends
MaxFrames == 2
\* signals (TERM/HUP/INT) delivered to the process
MaxSignals == 1
\* broker transport errors during consumption
MaxTransportErrors == 1
\* failed connects to a broker that is reachable
MaxConnectFailures == 1
\* sessions the remote WebSocket endpoint ends on its own
MaxRemoteCloses == 1
\* largest configured ws_max_connect_attempts
MaxConnectAttempts == 2
\* iterations of the startup readiness poll (range(60) scaled down)
MaxPolls == 1
\* calls of the stub's send in the stub-only specification
MaxStubSends == 3
\* distinct frames those calls choose from
MaxStubFrames == 2
\* attempt numbers at which the backoff formula is evaluated
MaxBackoffAttempts == 20

(* Program constants *)

\* MQHandler.max_retries
max_retries == 5
\* --runsecs default
RunSecs == 60

-----------------------------------------------------------------------------
VARIABLES
    \* configuration (fixed after startup)
    ws_stub,                    \* -X / --websocket-stub
    interrupt_secs,             \* --runsecs
    metrics_enabled,            \* MetricsHandler.metrics_enabled
    ws_max_connect_attempts,    \* WSHandler.ws_max_connect_attempts
    broker_down,                \* mq_broker_id names a host that cannot be reached
    \* Mq2WsBridge / main()
    server_running,
    int_sleeper,                \* Event: TRUE when set
    ws_handler,                 \* "None" until setup_wshandler constructs it
    successful_start,
    exit_code,                  \* what main() returned; -1 until it returns
    poll,
    main_pc,
    int_pc,
    \* MQHandler
    mq_running,
    connection,                 \* "None" | "open" | "closed"
    channel,                    \* "None" | "open" | "closed"
    consumer_tags,              \* channel.consumer_tags is non-empty
    attempts,                   \* local of create_connection
    mq_pc,
    cb_pc,                      \* position inside MQHandler.__call__
    cur,                        \* the delivery __call__ is (or was last) handling
    \* WSHandler
    ws_running,
    ws_connected,
    ws_failed,                  \* "None" or the reason string
    ws_handle,                  \* "None" | "created" | "connecting" | "open" | "closing" | "closed"
    attempt,                    \* local of run_ws_server
    last_elapsed,               \* time.time() - last_attempt_time of the session just ended
    short_sessions,             \* history: sessions in a row that ended within the window
    ws_pc,
    \* MetricsHandler counters
    count_to_ws,
    count_from_ws,
    count_mq_connection_attempts,
    slept,                      \* history: create_connection's last backoff sleep, seconds
    count_ws_connection_attempts,
    \* broker and environment
    q_in,                       \* Q_IN, head first
    q_out,                      \* Q_OUT, head first
    ws_out,                     \* history: frames sent to the remote endpoint, in order
    unacked,                    \* delivered and not yet settled: 0 = none
    frames,                     \* frames received from the remote endpoint so far
    signals,
    quit_in_steady,             \* history: a signal arrived in steady state
    transport_errors,
    connect_failures,
    remote_closes,
    \* history of the stub's send (stub-only specification)
    stub_sent,                  \* every call: the frame, ws_connected, ws_running
    stub_delivered,             \* frames handed to on_message_handler, in order
    stub_pub,                   \* the stub's last call of on_message_handler
    \* WSHandler.generate_jwt, called in separate runs of the program
    jwt_in,                     \* the arguments, the clock and the nonce
    jwt_seed,                   \* per run: the interpreter's string hash seed
    jwt_out,                    \* per run: the tokens built so far
    \* BridgeConfig.convert_ini_to_ssm
    config_ssm,                 \* the SSM region, or "None"
    ini,                        \* the INI file: per parameter <<>> (option missing) or <<value>>
    ssm_store,                  \* the parameter store: per name <<>> (absent) or <<parameter>>
    ssm_first,                  \* history: the store as the first migration left it
    ssm_ret,                    \* history: what each migration returned
    \* MetricsHandler.metrics_reporter
    rep_pc,                     \* idle, test (the while test), report, done, dead
    rep_last,                   \* the four last_* locals
    rep_errors,                 \* history: exceptions the loop has caught
    rep_exit,                   \* history: why the reporter ended
    \* LogHandler.output_log_message with CloudWatch logging, per calling thread
    log_pc,                     \* idle, acquire, put, release
    log_acquired,               \* what cw_mutex.acquire returned to the thread
    cw_mutex,                   \* the Lock: TRUE when locked
    cw_seq_token,               \* 0 for None, else the n-th token
    log_raised,                 \* history: exceptions that left output_log_message
    \* MQHandler.setup_mqhandler and the messages send_message builds
    mq_ttl_from_ws,             \* config.mq_ttl_from_ws: <<>> for None, else <<seconds>>
    ttl_from_ws,                \* MQHandler.ttl_from_ws, 0 for None
    pub_out,                    \* history: the messages published, body and properties
    \* MetricsHandler.metrics_reporter, one read of a counter at a time
    rep_at,                     \* the counter and the read the iteration is at
    rep_iters,                  \* iterations begun
    rep_emitted,                \* history: per counter, the sum of the deltas put
    rep_delta                   \* history: the delta put last

cfgVars    == <<ws_stub, interrupt_secs, metrics_enabled, ws_max_connect_attempts,
                broker_down>>
bridgeVars == <<server_running, int_sleeper, ws_handler, successful_start, exit_code,
                poll, main_pc, int_pc>>
mqVars     == <<mq_running, connection, channel, consumer_tags, attempts, mq_pc, cb_pc, cur>>
wsVars     == <<ws_running, ws_connected, ws_failed, ws_handle, attempt, ws_pc,
                last_elapsed, short_sessions>>
cntVars    == <<count_to_ws, count_from_ws, count_mq_connection_attempts,
                count_ws_connection_attempts, slept>>
envVars    == <<q_in, q_out, ws_out, unacked, frames, signals, quit_in_steady, transport_errors,
                connect_failures, remote_closes>>
stubVars   == <<stub_sent, stub_delivered, stub_pub>>

jwtVars    == <<jwt_in, jwt_seed, jwt_out>>
\* the components that are checked on their own
ssmVars    == <<config_ssm, ini, ssm_store, ssm_first, ssm_ret>>
repVars    == <<rep_pc, rep_last, rep_errors, rep_exit>>
logVars    == <<log_pc, log_acquired, cw_mutex, cw_seq_token, log_raised>>
pubVars    == <<mq_ttl_from_ws, ttl_from_ws, pub_out>>
dltVars    == <<rep_at, rep_iters, rep_emitted, rep_delta>>
auxVars    == <<jwtVars, ssmVars, repVars, logVars, pubVars, dltVars>>

vars == <<cfgVars, bridgeVars, mqVars, wsVars, cntVars, envVars, stubVars, auxVars>>

-----------------------------------------------------------------------------
(* Values *)

FailedToConnect == "websocket appears to have failed to connect (unidentified by library)"
AttemptsExceeded == "Exiting WebSocket forever loop because number of connect attempts exceeded"

NoDelivery == [body |-> 0, running |-> FALSE, fwd |-> "none", acks |-> 0, rejects |-> 0,
               ret |-> "none"]

NoJwtInput == [key_id |-> "", key_secret |-> "", path |-> "", uri |-> "", method |-> "",
               now |-> 0, nonce |-> "", jwt_params |-> <<>>, header_params |-> <<>>]

\* the threads that write log lines
LogThreads == 1..3

NoSample == [from_ws |-> 0, to_ws |-> 0, mq_connection_attempts |-> 0,
             ws_connection_attempts |-> 0]

NoPublish == [ch |-> "None", tags |-> FALSE, running |-> FALSE, fails |-> 0, tries |-> 0,
              ret |-> "none"]

\* Thread.is_alive(): started and not yet finished
is_alive(pc) == pc \notin {"idle", "done", "dead"}

\* Python's `x is True`: identity with the True singleton.  ws_failed only ever
\* holds None or a reason string.
IsTrue(x) == x = "True"

Min(a, b) == IF a < b THEN a ELSE b

\* a Python boolean as recorded in a delivery's history
Py(b) == IF b THEN "True" ELSE "False"

-----------------------------------------------------------------------------
(* Handler logic as operators *)

\* a faulty __call__ that lacks the `if self.mq_running is False` return
MQCallCheck_NoRunningCheck(ch, running) ==
    IF ch = "None" THEN "return_false" ELSE "forward"

\* a broker that puts a requeued message behind the waiting ones
Requeue_AtTail(q, m) == Append(q, m)

\* message.reject(requeue=True), and the broker's return of an unsettled
\* delivery when its channel closes: the message goes back to the head of the
\* queue, its original position
Requeue(q, m) == <<m>> \o q

\* MQHandler.__call__, the two early returns
MQCallCheck(ch, running) ==
    IF ch = "None" THEN "return_false"
    ELSE IF running = FALSE THEN "reject_requeue"
    ELSE "forward"

\* a faulty __call__ that settles the wrong way round
MQCallSettle_Inverted(success) ==
    IF success = TRUE THEN "reject_requeue" ELSE "ack"

\* MQHandler.__call__, settling after forward returned `success`
MQCallSettle(success) ==
    IF success = TRUE THEN "ack" ELSE "reject_requeue"

\* a faulty retry loop that never looks at the handler's state
RECURSIVE PublishLoop_NoAbort(_, _, _, _)
PublishLoop_NoAbort(retry_count, fails, tags, running) ==
    IF retry_count > 0
    THEN IF fails = 0
         THEN TRUE
         ELSE PublishLoop_NoAbort(retry_count - 1, fails - 1, tags, running)
    ELSE FALSE

\* a faulty retry loop that reports success once its retries are used up
RECURSIVE PublishLoop_ExhaustedIsSuccess(_, _, _, _)
PublishLoop_ExhaustedIsSuccess(retry_count, fails, tags, running) ==
    IF retry_count > 0
    THEN IF (~tags \/ running = FALSE) /\ retry_count < max_retries
         THEN FALSE
         ELSE IF fails = 0
              THEN TRUE
              ELSE PublishLoop_ExhaustedIsSuccess(retry_count - 1, fails - 1, tags, running)
    ELSE TRUE

\* MQHandler.send_message, the retry loop.  `fails` publish attempts raise
\* before one succeeds; `tags` is channel.consumer_tags being non-empty.
RECURSIVE PublishLoop(_, _, _, _)
PublishLoop(retry_count, fails, tags, running) ==
    IF retry_count > 0
    THEN IF (~tags \/ running = FALSE) /\ retry_count < max_retries
         THEN FALSE
         ELSE IF fails = 0
              THEN TRUE
              ELSE PublishLoop(retry_count - 1, fails - 1, tags, running)
    ELSE FALSE

\* MQHandler.send_message, the retry loop: how many times message.publish
\* is called
RECURSIVE PublishTries(_, _, _, _)
PublishTries(retry_count, fails, tags, running) ==
    IF retry_count > 0
    THEN IF (~tags \/ running = FALSE) /\ retry_count < max_retries
         THEN 0
         ELSE IF fails = 0
              THEN 1
              ELSE 1 + PublishTries(retry_count - 1, fails - 1, tags, running)
    ELSE 0

\* MQHandler.send_message: "raised" when queue.declare is issued on a channel
\* that is missing or closed, else "True" or "False" as the retry loop returns
send_message(ch, fails, tags, running) ==
    IF ch # "open" THEN "raised"
    ELSE Py(PublishLoop(max_retries, fails, tags, running))

\* a faulty send that reports success although ws_handle.send raised
send_ws_message_SwallowsFailure(connected, running, handle, sendok) ==
    IF connected = TRUE /\ running = TRUE
    THEN [ret |-> TRUE, sent |-> handle = "open" /\ sendok]
    ELSE [ret |-> FALSE, sent |-> FALSE]

\* WSHandler.send_ws_message: [ret, sent]; `sendok` is whether ws_handle.send
\* returns rather than raises
send_ws_message(connected, running, handle, sendok) ==
    IF connected = TRUE /\ running = TRUE
    THEN IF handle = "open" /\ sendok
         THEN [ret |-> TRUE, sent |-> TRUE]
         ELSE [ret |-> FALSE, sent |-> FALSE]
    ELSE [ret |-> FALSE, sent |-> FALSE]

\* a faulty stub that mirrors whenever ws_connected, whatever ws_running
send_ws_message_stub_IgnoresRunning(connected, running, msg) ==
    IF connected = TRUE
    THEN [handed |-> <<msg>>, ret |-> TRUE]
    ELSE [handed |-> <<>>, ret |-> FALSE]

\* WSHandler.send_ws_message_stub: the frames handed to on_message_handler
\* and whether the call gets as far as `return True`
send_ws_message_stub(connected, running, msg) ==
    IF connected = TRUE /\ running = TRUE
    THEN [handed |-> <<msg>>, ret |-> TRUE]
    ELSE [handed |-> <<>>, ret |-> FALSE]

\* WSHandler.on_close: the reason recorded in ws_failed
on_close_failed(code_null, msg_null, failed) ==
    IF code_null /\ msg_null THEN FailedToConnect ELSE failed

\* a faulty loop test: while True
ws_loop_continues_Always(a, max) == TRUE

\* a faulty loop test that allows one attempt more than configured
ws_loop_continues_Inclusive(a, max) == a <= max

\* WSHandler.run_ws_server: `while attempt < self.ws_max_connect_attempts`
ws_loop_continues(a, max) == a < max

\* a faulty window test that resets after every session
attempt_after_session_AlwaysResets(a, elapsed) == 0

\* a faulty window test that also resets after a session of exactly the window
attempt_after_session_Inclusive(a, elapsed) ==
    IF elapsed >= 60 THEN 0 ELSE a

\* WSHandler.run_ws_server: attempt counter after a session that lasted `elapsed`
AttemptWindowSecs == 60
attempt_after_session(a, elapsed) ==
    IF elapsed > AttemptWindowSecs THEN 0 ELSE a

\* a faulty budget test that gives up at the max_retries-th failure
retries_exceeded_Inclusive(n) == max_retries # 0 /\ n >= max_retries

\* MQHandler.create_connection: retry budget test after a failed connect
retries_exceeded(n) == max_retries # 0 /\ n > max_retries

\* a faulty backoff that doubles with every attempt
backoff_Doubling(n) == Min(2 ^ n, 30)

\* MQHandler.create_connection: backoff sleep after the n-th failed connect
backoff(n) == Min(n * 2, 30)

\* main(): the startup poll's failure test
poll_failed(failed) == IsTrue(failed)

\* main(): the startup poll's readiness test
poll_ready(mqr, wsr, wsc) == mqr = TRUE /\ wsr = TRUE /\ wsc = TRUE

\* a faulty watch that looks at the thread only
worker_stopped_ThreadOnly(pc, running) == is_alive(pc) = FALSE

\* main(): the watch loop's test of one worker
worker_stopped(pc, running) == is_alive(pc) = FALSE \/ running = FALSE

-----------------------------------------------------------------------------
(* Initial state: main() has parsed its command line and is about to set up *)

\* the configurations: ws_max_connect_attempts is not read by the stub
Configured ==
    /\ ws_stub \in BOOLEAN
    /\ interrupt_secs \in {0, RunSecs}
    /\ metrics_enabled = TRUE
    /\ ws_max_connect_attempts \in
           IF ws_stub THEN {MaxConnectAttempts} ELSE 0..MaxConnectAttempts
    /\ broker_down \in BOOLEAN

\* everything but the configuration and the content of Q_IN
Constructed ==
    /\ server_running = FALSE
    /\ int_sleeper = FALSE
    /\ ws_handler = "None"
    /\ successful_start = 0
    /\ exit_code = -1
    /\ poll = 0
    /\ main_pc = "setup"
    /\ int_pc = "idle"
    /\ mq_running = FALSE
    /\ connection = "None"
    /\ channel = "None"
    /\ consumer_tags = FALSE
    /\ attempts = 0
    /\ mq_pc = "idle"
    /\ cb_pc = "idle"
    /\ cur = NoDelivery
    /\ ws_running = FALSE
    /\ ws_connected = FALSE
    /\ ws_failed = "None"
    /\ ws_handle = "None"
    /\ attempt = 0
    /\ ws_pc = "idle"
    /\ last_elapsed = 0
    /\ short_sessions = 0
    /\ count_to_ws = 0
    /\ count_from_ws = 0
    /\ count_mq_connection_attempts = 0
    /\ slept = 0
    /\ count_ws_connection_attempts = 0
    /\ q_out = <<>>
    /\ ws_out = <<>>
    /\ unacked = 0
    /\ frames = 0
    /\ signals = 0
    /\ quit_in_steady = FALSE
    /\ transport_errors = 0
    /\ connect_failures = 0
    /\ remote_closes = 0
    /\ stub_sent = <<>>
    /\ stub_delivered = <<>>
    /\ stub_pub = NoPublish

\* no token has been asked for
JwtIdle ==
    /\ jwt_in = NoJwtInput
    /\ jwt_seed = <<0, 0>>
    /\ jwt_out = <<(<<>>), (<<>>)>>

\* no migration has been asked for
SsmIdle ==
    /\ config_ssm = "None"
    /\ ini = <<>>
    /\ ssm_store = <<>>
    /\ ssm_first = <<>>
    /\ ssm_ret = <<>>

\* the metrics reporter thread has not run
RepIdle ==
    /\ rep_pc = "idle"
    /\ rep_last = NoSample
    /\ rep_errors = 0
    /\ rep_exit = "none"

\* LogHandler.__init__: no thread is logging, the mutex is free, no token
LogIdle ==
    /\ log_pc = [t \in LogThreads |-> "idle"]
    /\ log_acquired = [t \in LogThreads |-> FALSE]
    /\ cw_mutex = FALSE
    /\ cw_seq_token = 0
    /\ log_raised = 0

\* MQHandler.__init__, with no TTL configured
PubIdle ==
    /\ mq_ttl_from_ws = <<>>
    /\ ttl_from_ws = 0
    /\ pub_out = <<>>

\* metrics_reporter before its first iteration
DltIdle ==
    /\ rep_at = [k |-> 1, read |-> "total"]
    /\ rep_iters = 0
    /\ rep_emitted = NoSample
    /\ rep_delta = 0

\* the components checked on their own are not in use
AuxIdle ==
    /\ JwtIdle
    /\ SsmIdle
    /\ RepIdle
    /\ LogIdle
    /\ PubIdle
    /\ DltIdle

\* the bridge starts against an empty Q_IN
Init ==
    /\ Configured
    /\ Constructed
    /\ q_in = <<>>
    /\ AuxIdle

-----------------------------------------------------------------------------
(* Supervisor: main() *)

\* main() up to and including the installation of the signal handlers:
\* server_running is set, the broker handler is built, the interrupter started
MainSetup ==
    /\ main_pc = "setup"
    /\ server_running' = TRUE
    /\ int_pc' = "wait"
    /\ main_pc' = "setup_ws"
    /\ UNCHANGED <<int_sleeper, ws_handler, successful_start, exit_code, poll>>
    /\ UNCHANGED <<cfgVars, mqVars, wsVars, cntVars, envVars, stubVars, auxVars>>

\* main(): logger/metrics setup raises, or setup_mqhandler returns None
MainSetupFails ==
    /\ main_pc = "setup"
    /\ server_running' = TRUE
    /\ exit_code' = 1
    /\ main_pc' = "aborted"
    /\ UNCHANGED <<int_sleeper, ws_handler, successful_start, poll, int_pc>>
    /\ UNCHANGED <<cfgVars, mqVars, wsVars, cntVars, envVars, stubVars, auxVars>>

\* main(): ws_thread = bb.setup_wshandler(config), then mq_thread.start()
\* and ws_thread.start()
MainStartThreads ==
    /\ main_pc = "setup_ws"
    /\ ws_handler' = "WSHandler"
    /\ mq_pc' = "start"
    /\ ws_pc' = "start"
    /\ main_pc' = "poll"
    /\ UNCHANGED <<server_running, int_sleeper, successful_start, exit_code, poll, int_pc>>
    /\ UNCHANGED <<mq_running, connection, channel, consumer_tags, attempts, cb_pc, cur>>
    /\ UNCHANGED <<ws_running, ws_connected, ws_failed, ws_handle, attempt, last_elapsed,
                   short_sessions>>
    /\ UNCHANGED <<cfgVars, cntVars, envVars, stubVars, auxVars>>

\* main(): one iteration of `for poll in range(60)`
MainPoll ==
    /\ main_pc = "poll"
    /\ IF poll >= MaxPolls
       THEN /\ main_pc' = "watch"
            /\ UNCHANGED <<server_running, int_sleeper, successful_start, poll>>
       ELSE IF poll_failed(ws_failed)
       THEN /\ server_running' = FALSE
            /\ int_sleeper' = TRUE
            /\ successful_start' = 1
            /\ main_pc' = "watch"
            /\ UNCHANGED poll
       ELSE IF poll_ready(mq_running, ws_running, ws_connected)
       THEN /\ main_pc' = "watch"
            /\ UNCHANGED <<server_running, int_sleeper, successful_start, poll>>
       ELSE /\ poll' = poll + 1
            /\ UNCHANGED <<server_running, int_sleeper, successful_start, main_pc>>
    /\ UNCHANGED <<ws_handler, exit_code, int_pc>>
    /\ UNCHANGED <<cfgVars, mqVars, wsVars, cntVars, envVars, stubVars, auxVars>>

\* main(): one iteration of `while bb.server_running is True`: the sleep,
\* then the check of the broker worker and of the WebSocket worker
MainWatch ==
    /\ main_pc = "watch"
    /\ IF server_running = TRUE
       THEN /\ IF worker_stopped(mq_pc, mq_running) \/ worker_stopped(ws_pc, ws_running)
               THEN server_running' = FALSE /\ int_sleeper' = TRUE
               ELSE UNCHANGED <<server_running, int_sleeper>>
            /\ UNCHANGED main_pc
       ELSE /\ main_pc' = "join"
            /\ UNCHANGED <<server_running, int_sleeper>>
    /\ UNCHANGED <<ws_handler, successful_start, exit_code, poll, int_pc>>
    /\ UNCHANGED <<cfgVars, mqVars, wsVars, cntVars, envVars, stubVars, auxVars>>

\* main(): mq_thread.join(JOIN_TIMEOUT) and ws_thread.join(JOIN_TIMEOUT), each
\* of which returns when the worker has finished or when the timeout has
\* elapsed, whichever comes first; then `return successful_start`
MainJoin ==
    /\ main_pc = "join"
    /\ exit_code' = successful_start
    /\ main_pc' = "done"
    /\ UNCHANGED <<server_running, int_sleeper, ws_handler, successful_start, poll, int_pc>>
    /\ UNCHANGED <<cfgVars, mqVars, wsVars, cntVars, envVars, stubVars, auxVars>>

\* the bridge in steady state: supervisor in its watch loop, both handlers
\* running, WebSocket connected
SteadyState ==
    /\ main_pc = "watch"
    /\ server_running = TRUE
    /\ mq_running = TRUE
    /\ ws_running = TRUE
    /\ ws_connected = TRUE

\* Mq2WsBridge.quit: the handler of TERM, HUP and INT
quit ==
    /\ main_pc \notin {"setup", "aborted"}
    /\ signals < MaxSignals
    /\ signals' = signals + 1
    /\ quit_in_steady' = (quit_in_steady \/ SteadyState)
    /\ server_running' = FALSE
    /\ int_sleeper' = TRUE
    /\ UNCHANGED <<ws_handler, successful_start, exit_code, poll, main_pc, int_pc>>
    /\ UNCHANGED <<q_in, q_out, ws_out, unacked, frames, transport_errors, connect_failures,
                   remote_closes>>
    /\ UNCHANGED <<cfgVars, mqVars, wsVars, cntVars, stubVars, auxVars>>

-----------------------------------------------------------------------------
(* Interrupter thread: Mq2WsBridge.interrupter *)

\* the wait: with interrupt_secs = 0 the loop ends once server_running is
\* seen false; otherwise the timed wait ends (signalled or elapsed) and
\* server_running is cleared
IntWake ==
    /\ int_pc = "wait"
    /\ IF interrupt_secs = 0
       THEN server_running = FALSE /\ UNCHANGED server_running
       ELSE server_running' = FALSE
    /\ int_pc' = "close_mq"
    /\ UNCHANGED <<int_sleeper, ws_handler, successful_start, exit_code, poll, main_pc>>
    /\ UNCHANGED <<cfgVars, mqVars, wsVars, cntVars, envVars, stubVars, auxVars>>

\* MQHandler.close, first statement: self.mq_running = False
IntCloseMqFlag ==
    /\ int_pc = "close_mq"
    /\ mq_running' = FALSE
    /\ int_pc' = "close_mq_channel"
    /\ UNCHANGED <<server_running, int_sleeper, ws_handler, successful_start, exit_code,
                   poll, main_pc>>
    /\ UNCHANGED <<connection, channel, consumer_tags, attempts, mq_pc, cb_pc, cur>>
    /\ UNCHANGED <<cfgVars, wsVars, cntVars, envVars, stubVars, auxVars>>

\* MQHandler.close after it cleared mq_running, as a function of the channel
\* and connection it finds: basic.cancel and channel.close if a channel was
\* ever assigned, connection.close if a connection was.  basic.cancel on a
\* channel that is already closed raises AMQPError before anything is closed.
MQClose(ch, conn) ==
    IF ch = "closed"
    THEN [channel |-> ch, connection |-> conn, raised |-> TRUE]
    ELSE [channel |-> IF ch = "None" THEN "None" ELSE "closed",
          connection |-> IF conn = "None" THEN "None" ELSE "closed",
          raised |-> FALSE]

\* MQHandler.close, the rest.  An exception ends the interrupter thread.
\* Closing the channel returns an unsettled delivery to Q_IN.
IntCloseMqChannel ==
    /\ int_pc = "close_mq_channel"
    /\ IF MQClose(channel, connection).raised
       THEN /\ int_pc' = "dead"
            /\ UNCHANGED <<connection, channel, consumer_tags, q_in, unacked>>
       ELSE /\ int_pc' = "close_ws"
            /\ channel' = MQClose(channel, connection).channel
            /\ consumer_tags' = FALSE
            /\ connection' = MQClose(channel, connection).connection
            /\ q_in' = IF unacked # 0 THEN Requeue(q_in, unacked) ELSE q_in
            /\ unacked' = 0
    /\ UNCHANGED <<server_running, int_sleeper, ws_handler, successful_start, exit_code,
                   poll, main_pc>>
    /\ UNCHANGED <<mq_running, attempts, mq_pc, cb_pc, cur>>
    /\ UNCHANGED <<q_out, ws_out, frames, signals, quit_in_steady, transport_errors,
                   connect_failures, remote_closes>>
    /\ UNCHANGED <<cfgVars, wsVars, cntVars, stubVars, auxVars>>

\* self.ws_handler.close(): AttributeError when the handler is not yet
\* constructed; else WSHandler.close, then self.metrics.close() and return
IntCloseWs ==
    /\ int_pc = "close_ws"
    /\ IF ws_handler = "None"
       THEN /\ int_pc' = "dead"
            /\ UNCHANGED <<ws_running, ws_handle>>
       ELSE /\ int_pc' = "done"
            /\ ws_running' = FALSE
            /\ ws_handle' = IF ws_handle \in {"connecting", "open"} THEN "closing"
                            ELSE ws_handle
    /\ UNCHANGED <<server_running, int_sleeper, ws_handler, successful_start, exit_code,
                   poll, main_pc>>
    /\ UNCHANGED <<ws_connected, ws_failed, attempt, ws_pc, last_elapsed,
                   short_sessions>>
    /\ UNCHANGED <<cfgVars, mqVars, cntVars, envVars, stubVars, auxVars>>

-----------------------------------------------------------------------------
(* Broker worker: MQHandler.run_mq_server *)

\* where consume_messages' `except amqpstorm.AMQPError` leaves the thread
AfterAMQPError(running) == IF running = TRUE THEN "connect" ELSE "consume_top"

\* run_mq_server -> consume_messages: mq_running = True, then
\* create_connection() if there is no connection
MqStart ==
    /\ mq_pc = "start"
    /\ mq_running' = TRUE
    /\ IF connection = "None"
       THEN mq_pc' = "connect" /\ attempts' = 0
       ELSE mq_pc' = "consume_top" /\ UNCHANGED attempts
    /\ UNCHANGED <<connection, channel, consumer_tags, cb_pc, cur>>
    /\ UNCHANGED <<cfgVars, bridgeVars, wsVars, cntVars, envVars, stubVars, auxVars>>

\* create_connection: one iteration of `while self.mq_running is True`.
\* UriConnection raises AMQPError whenever the broker cannot be reached, and
\* a bounded number of times when it can.
MqConnect ==
    /\ mq_pc = "connect"
    /\ IF mq_running # TRUE
       THEN /\ mq_pc' = "consume_top"
            /\ UNCHANGED <<mq_running, connection, attempts, count_mq_connection_attempts,
                           connect_failures, slept>>
       ELSE /\ attempts' = attempts + 1
            /\ count_mq_connection_attempts' =
                   IF metrics_enabled THEN attempts + 1 ELSE count_mq_connection_attempts
            /\ \E ok \in BOOLEAN :
                 /\ ok => ~broker_down
                 /\ ~ok => broker_down \/ connect_failures < MaxConnectFailures
                 /\ connect_failures' = IF ok \/ broker_down THEN connect_failures
                                        ELSE connect_failures + 1
                 /\ IF ok
                    THEN /\ connection' = "open"
                         /\ mq_pc' = "consume_top"
                         /\ UNCHANGED <<mq_running, slept>>
                    ELSE IF retries_exceeded(attempts + 1)
                    THEN /\ mq_running' = FALSE
                         /\ mq_pc' = "consume_top"
                         /\ UNCHANGED <<connection, slept>>
                    ELSE /\ slept' = backoff(attempts + 1)
                         /\ UNCHANGED <<mq_running, connection, mq_pc>>
    /\ UNCHANGED <<channel, consumer_tags, cb_pc, cur>>
    /\ UNCHANGED <<count_to_ws, count_from_ws, count_ws_connection_attempts>>
    /\ UNCHANGED <<q_in, q_out, ws_out, unacked, frames, signals, quit_in_steady,
                   transport_errors, remote_closes>>
    /\ UNCHANGED <<cfgVars, bridgeVars, wsVars, stubVars, auxVars>>

\* consume_messages: `while self.mq_running is True`.  Running: open the
\* channel, declare Q_IN, register the consumer; on a closed connection this
\* raises AMQPError, with no connection object the attribute access fails and
\* the thread ends.  Not running: consume_messages returns and run_mq_server
\* clears mq_running.
MqConsumeTop ==
    /\ mq_pc = "consume_top"
    /\ IF mq_running # TRUE
       THEN /\ mq_running' = FALSE
            /\ mq_pc' = "done"
            /\ UNCHANGED <<channel, consumer_tags, attempts>>
       ELSE IF connection = "open"
       THEN /\ channel' = "open"
            /\ consumer_tags' = TRUE
            /\ mq_pc' = "consuming"
            /\ UNCHANGED <<mq_running, attempts>>
       ELSE IF connection = "closed"
       THEN /\ mq_pc' = "connect"
            /\ attempts' = 0
            /\ UNCHANGED <<mq_running, channel, consumer_tags>>
       ELSE /\ mq_pc' = "dead"
            /\ UNCHANGED <<mq_running, channel, consumer_tags, attempts>>
    /\ UNCHANGED <<connection, cb_pc, cur>>
    /\ UNCHANGED <<cfgVars, bridgeVars, wsVars, cntVars, envVars, stubVars, auxVars>>

\* The broker delivers the head of Q_IN and MQHandler.__call__ runs up to its
\* two early returns
MqCall ==
    /\ mq_pc = "consuming"
    /\ cb_pc = "idle"
    /\ channel = "open"
    /\ consumer_tags
    /\ unacked = 0
    /\ q_in # <<>>
    /\ LET m == Head(q_in)
           act == MQCallCheck(channel, mq_running)
           d == [body |-> m, running |-> mq_running, fwd |-> "none", acks |-> 0,
                 rejects |-> 0, ret |-> "none"]
       IN  IF act = "reject_requeue"
           THEN /\ cur' = [d EXCEPT !.rejects = 1, !.ret = "False"]
                /\ UNCHANGED <<q_in, unacked, cb_pc>>
           ELSE IF act = "forward"
           THEN /\ cur' = d
                /\ q_in' = Tail(q_in)
                /\ unacked' = m
                /\ cb_pc' = "forward"
           ELSE /\ cur' = [d EXCEPT !.ret = "False"]
                /\ q_in' = Tail(q_in)
                /\ unacked' = m
                /\ UNCHANGED cb_pc
    /\ UNCHANGED <<mq_running, connection, channel, consumer_tags, attempts, mq_pc>>
    /\ UNCHANGED <<q_out, ws_out, frames, signals, quit_in_steady, transport_errors,
                   connect_failures, remote_closes>>
    /\ UNCHANGED <<cfgVars, bridgeVars, wsVars, cntVars, stubVars, auxVars>>

\* MQHandler.__call__ after forward returned `success`: ack or reject, then
\* return.  ack and reject raise AMQPError on a channel closed meanwhile
\* (whose unsettled delivery the broker has already returned to Q_IN).
Settle(success) ==
    LET act == MQCallSettle(success)
    IN  /\ cur' = [cur EXCEPT !.fwd = IF success = TRUE THEN "true" ELSE "false",
                              !.acks = IF act = "ack" THEN @ + 1 ELSE @,
                              !.rejects = IF act = "reject_requeue" THEN @ + 1 ELSE @,
                              !.ret = IF channel = "open" THEN Py(success) ELSE "raised"]
        /\ cb_pc' = "idle"
        /\ IF channel = "open"
           THEN /\ unacked' = 0
                /\ q_in' = IF act = "ack" THEN q_in ELSE Requeue(q_in, cur.body)
                /\ UNCHANGED <<mq_pc, attempts>>
           ELSE /\ mq_pc' = AfterAMQPError(mq_running)
                /\ attempts' = IF mq_running = TRUE THEN 0 ELSE attempts
                /\ UNCHANGED <<unacked, q_in>>

\* MQHandler.__call__ from `success = self.mq_to_ws_method(message.body)` on,
\* with mq_to_ws_method = WSHandler.send_ws_message
MqForwardWs ==
    /\ cb_pc = "forward"
    /\ ~ws_stub
    /\ \E sendok \in BOOLEAN :
         LET r == send_ws_message(ws_connected, ws_running, ws_handle, sendok)
         IN  /\ count_to_ws' = IF r.sent /\ metrics_enabled THEN count_to_ws + 1
                               ELSE count_to_ws
             /\ ws_out' = IF r.sent THEN Append(ws_out, cur.body) ELSE ws_out
             /\ Settle(r.ret)
    /\ UNCHANGED <<mq_running, connection, channel, consumer_tags>>
    /\ UNCHANGED <<count_from_ws, count_mq_connection_attempts, count_ws_connection_attempts,
                   slept>>
    /\ UNCHANGED <<q_out, frames, signals, quit_in_steady, transport_errors,
                   connect_failures, remote_closes>>
    /\ UNCHANGED <<cfgVars, bridgeVars, wsVars, stubVars, auxVars>>

\* the same with mq_to_ws_method = WSHandler.send_ws_message_stub, whose
\* on_message_handler is MQHandler.send_message_from_ws.  An AMQPError raised
\* by the publish leaves __call__ and start_consuming without settling.
MqForwardStub ==
    /\ cb_pc = "forward"
    /\ ws_stub
    /\ LET r == send_ws_message_stub(ws_connected, ws_running, cur.body)
       IN  IF r.handed = <<>>
           THEN /\ Settle(r.ret)
                /\ UNCHANGED <<count_to_ws, count_from_ws, q_out>>
           ELSE /\ count_to_ws' = IF metrics_enabled THEN count_to_ws + 1 ELSE count_to_ws
                /\ count_from_ws' = IF metrics_enabled THEN count_from_ws + 1
                                    ELSE count_from_ws
                /\ \E fails \in 0..max_retries :
                     LET pub == send_message(channel, fails, consumer_tags, mq_running)
                     IN  IF pub = "raised"
                         THEN /\ cur' = [cur EXCEPT !.fwd = "raised", !.ret = "raised"]
                              /\ cb_pc' = "idle"
                              /\ mq_pc' = AfterAMQPError(mq_running)
                              /\ attempts' = IF mq_running = TRUE THEN 0 ELSE attempts
                              /\ UNCHANGED <<unacked, q_in, q_out>>
                         ELSE /\ q_out' = IF pub = "True" THEN q_out \o r.handed ELSE q_out
                              /\ Settle(r.ret)
    /\ UNCHANGED <<mq_running, connection, channel, consumer_tags>>
    /\ UNCHANGED <<count_mq_connection_attempts, count_ws_connection_attempts, slept>>
    /\ UNCHANGED <<ws_out, frames, signals, quit_in_steady, transport_errors,
                   connect_failures, remote_closes>>
    /\ UNCHANGED <<cfgVars, bridgeVars, wsVars, stubVars, auxVars>>

\* start_consuming ends because the consumer was cancelled or the channel
\* closed under it: it either returns (then `if not consumer_tags or not
\* mq_running: channel.close()`) or raises AMQPError
MqConsumeEnds ==
    /\ mq_pc = "consuming"
    /\ cb_pc = "idle"
    /\ channel = "closed" \/ ~consumer_tags
    /\ \E raised \in BOOLEAN :
         IF raised
         THEN /\ mq_pc' = AfterAMQPError(mq_running)
              /\ attempts' = IF mq_running = TRUE THEN 0 ELSE attempts
              /\ UNCHANGED channel
         ELSE /\ mq_pc' = "consume_top"
              /\ channel' = IF ~consumer_tags \/ mq_running = FALSE THEN "closed" ELSE channel
              /\ UNCHANGED attempts
    /\ UNCHANGED <<mq_running, connection, consumer_tags, cb_pc, cur>>
    /\ UNCHANGED <<cfgVars, bridgeVars, wsVars, cntVars, envVars, stubVars, auxVars>>

\* the broker connection drops while consuming: start_consuming raises
\* AMQPError and consume_messages reconnects if still running
MqTransportError ==
    /\ mq_pc = "consuming"
    /\ cb_pc = "idle"
    /\ channel = "open"
    /\ transport_errors < MaxTransportErrors
    /\ transport_errors' = transport_errors + 1
    /\ connection' = "closed"
    /\ channel' = "closed"
    /\ mq_pc' = AfterAMQPError(mq_running)
    /\ attempts' = IF mq_running = TRUE THEN 0 ELSE attempts
    /\ UNCHANGED <<mq_running, consumer_tags, cb_pc, cur>>
    /\ UNCHANGED <<q_in, q_out, ws_out, unacked, frames, signals, quit_in_steady,
                   connect_failures, remote_closes>>
    /\ UNCHANGED <<cfgVars, bridgeVars, wsVars, cntVars, stubVars, auxVars>>

-----------------------------------------------------------------------------
(* WebSocket worker: WSHandler.run_ws_server *)

\* run_ws_server entry: ws_running = True, attempt = 0
WsStart ==
    /\ ws_pc = "start"
    /\ ~ws_stub
    /\ ws_running' = TRUE
    /\ attempt' = 0
    /\ ws_pc' = "loop"
    /\ UNCHANGED <<ws_connected, ws_failed, ws_handle, last_elapsed,
                   short_sessions>>
    /\ UNCHANGED <<cfgVars, bridgeVars, mqVars, cntVars, envVars, stubVars, auxVars>>

\* run_ws_server: the loop test and one iteration up to the construction of
\* the WebSocketApp (whose failure `continue`s); after the loop, ws_failed
WsLoop ==
    /\ ws_pc = "loop"
    /\ IF ws_loop_continues(attempt, ws_max_connect_attempts)
       THEN /\ attempt' = attempt + 1
            /\ IF ws_running = FALSE
               THEN /\ ws_pc' = "done"
                    /\ UNCHANGED <<ws_handle, count_ws_connection_attempts>>
               ELSE /\ count_ws_connection_attempts' =
                          IF metrics_enabled THEN attempt + 1
                          ELSE count_ws_connection_attempts
                    /\ \E created \in BOOLEAN :
                         IF created
                         THEN ws_handle' = "created" /\ ws_pc' = "run"
                         ELSE UNCHANGED <<ws_handle, ws_pc>>
            /\ UNCHANGED ws_failed
       ELSE /\ ws_failed' = AttemptsExceeded
            /\ ws_pc' = "done"
            /\ UNCHANGED <<attempt, ws_handle, count_ws_connection_attempts>>
    /\ last_elapsed' = 0
    /\ UNCHANGED <<ws_running, ws_connected, short_sessions>>
    /\ UNCHANGED <<count_to_ws, count_from_ws, count_mq_connection_attempts,
                   slept>>
    /\ UNCHANGED <<cfgVars, bridgeVars, mqVars, envVars, stubVars, auxVars>>

\* run_ws_server: self.ws_handle.run_forever(...) starts connecting
WsRunForever ==
    /\ ws_pc = "run"
    /\ ws_handle' = "connecting"
    /\ ws_pc' = "session"
    /\ UNCHANGED <<ws_running, ws_connected, ws_failed, attempt, last_elapsed,
                   short_sessions>>
    /\ UNCHANGED <<cfgVars, bridgeVars, mqVars, cntVars, envVars, stubVars, auxVars>>

\* WSHandler.on_open
on_open ==
    /\ ws_pc = "session"
    /\ ws_handle = "connecting"
    /\ ws_connected' = TRUE
    /\ ws_handle' = "open"
    /\ UNCHANGED <<ws_running, ws_failed, attempt, ws_pc, last_elapsed,
                   short_sessions>>
    /\ UNCHANGED <<cfgVars, bridgeVars, mqVars, cntVars, envVars, stubVars, auxVars>>

\* WSHandler.on_close(ws, code, msg) ends the session; run_forever returns and
\* run_ws_server applies the attempt-window reset to a session that lasted
\* `elapsed` seconds
SessionEnds(code_null, msg_null, elapsed) ==
    /\ ws_connected' = FALSE
    /\ ws_failed' = on_close_failed(code_null, msg_null, ws_failed)
    /\ ws_handle' = "closed"
    /\ attempt' = attempt_after_session(attempt, elapsed)
    /\ ws_pc' = "loop"
    /\ last_elapsed' = elapsed
    /\ short_sessions' = IF elapsed > AttemptWindowSecs THEN 0
                         ELSE Min(short_sessions + 1, ws_max_connect_attempts + 1)
    /\ UNCHANGED ws_running

\* session lengths around the attempt window
Elapsed == {AttemptWindowSecs - 1, AttemptWindowSecs, AttemptWindowSecs + 1}

\* the handshake fails: on_close(None, None)
WsConnectFails ==
    /\ ws_pc = "session"
    /\ ws_handle = "connecting"
    /\ \E elapsed \in Elapsed : SessionEnds(TRUE, TRUE, elapsed)
    /\ UNCHANGED <<cfgVars, bridgeVars, mqVars, cntVars, envVars, stubVars, auxVars>>

\* the session ends after WSHandler.close closed the handle
WsClosedLocally ==
    /\ ws_pc = "session"
    /\ ws_handle = "closing"
    /\ \E code_null \in BOOLEAN, msg_null \in BOOLEAN, elapsed \in Elapsed :
         SessionEnds(code_null, msg_null, elapsed)
    /\ UNCHANGED <<cfgVars, bridgeVars, mqVars, cntVars, envVars, stubVars, auxVars>>

\* the remote endpoint (or the network) ends an open session
WsClosedRemotely ==
    /\ ws_pc = "session"
    /\ ws_handle = "open"
    /\ remote_closes < MaxRemoteCloses
    /\ remote_closes' = remote_closes + 1
    /\ \E code_null \in BOOLEAN, msg_null \in BOOLEAN, elapsed \in Elapsed :
         SessionEnds(code_null, msg_null, elapsed)
    /\ UNCHANGED <<q_in, q_out, ws_out, unacked, frames, signals, quit_in_steady,
                   transport_errors, connect_failures>>
    /\ UNCHANGED <<cfgVars, bridgeVars, mqVars, cntVars, stubVars, auxVars>>

\* WSHandler.on_message with on_message_handler = send_message_from_ws; an
\* exception of the handler is caught by the WebSocket library
on_message ==
    /\ ws_pc = "session"
    /\ ws_handle = "open"
    /\ frames < MaxFrames
    /\ frames' = frames + 1
    /\ count_from_ws' = IF metrics_enabled THEN count_from_ws + 1 ELSE count_from_ws
    /\ \E fails \in 0..max_retries :
         LET pub == send_message(channel, fails, consumer_tags, mq_running)
         IN  q_out' = IF pub = "True" THEN Append(q_out, MaxMsgs + frames + 1) ELSE q_out
    /\ UNCHANGED <<count_to_ws, count_mq_connection_attempts, count_ws_connection_attempts,
                   slept>>
    /\ UNCHANGED <<q_in, ws_out, unacked, signals, quit_in_steady, transport_errors,
                   connect_failures, remote_closes>>
    /\ UNCHANGED <<cfgVars, bridgeVars, mqVars, wsVars, stubVars, auxVars>>

\* WSHandler.run_ws_server_stub entry: ws_running = ws_connected = True
WsStubStart ==
    /\ ws_pc = "start"
    /\ ws_stub
    /\ ws_running' = TRUE
    /\ ws_connected' = TRUE
    /\ ws_pc' = "stub_loop"
    /\ UNCHANGED <<ws_failed, ws_handle, attempt, last_elapsed,
                   short_sessions>>
    /\ UNCHANGED <<cfgVars, bridgeVars, mqVars, cntVars, envVars, stubVars, auxVars>>

\* run_ws_server_stub: `while self.ws_running is True` ends
WsStubExit ==
    /\ ws_pc = "stub_loop"
    /\ ws_running # TRUE
    /\ ws_pc' = "done"
    /\ UNCHANGED <<ws_running, ws_connected, ws_failed, ws_handle, attempt, last_elapsed,
                   short_sessions>>
    /\ UNCHANGED <<cfgVars, bridgeVars, mqVars, cntVars, envVars, stubVars, auxVars>>

-----------------------------------------------------------------------------
(* The steps of each thread *)

MainStep ==
    \/ MainSetup \/ MainSetupFails \/ MainStartThreads \/ MainPoll \/ MainWatch \/ MainJoin

IntStep ==
    \/ IntWake \/ IntCloseMqFlag \/ IntCloseMqChannel \/ IntCloseWs

\* the broker worker without message deliveries
MqStep ==
    \/ MqStart \/ MqConnect \/ MqConsumeTop \/ MqConsumeEnds

\* the WebSocket worker without inbound frames
WsStep ==
    \/ WsStart \/ WsLoop \/ WsRunForever \/ on_open \/ WsConnectFails \/ WsClosedLocally
    \/ WsStubStart \/ WsStubExit

\* what the environment does to the connections
EnvStep ==
    \/ quit \/ MqTransportError \/ WsClosedRemotely

(* Lifecycle of the bridge on an idle Q_IN and an idle WebSocket *)
Next ==
    \/ MainStep \/ IntStep \/ MqStep \/ WsStep \/ EnvStep

Spec == Init /\ [][Next]_vars

-----------------------------------------------------------------------------
(* Message traffic: the bridge is started against a Q_IN that holds messages
   and a remote endpoint that sends frames.  The supervisor stays in its
   startup poll; shutdown comes from the interrupter's timed wait, which may
   elapse at any moment. *)

TrafficInit ==
    /\ ws_stub \in BOOLEAN
    /\ interrupt_secs = RunSecs
    /\ metrics_enabled \in BOOLEAN
    /\ ws_max_connect_attempts = MaxConnectAttempts
    /\ broker_down = FALSE
    /\ Constructed
    /\ q_in \in {[i \in 1..n |-> i] : n \in 0..MaxMsgs}
    /\ AuxIdle

TrafficStep ==
    \/ MqCall \/ MqForwardWs \/ MqForwardStub \/ on_message

TrafficNext ==
    \/ MainSetup \/ MainStartThreads
    \/ IntStep \/ MqStep \/ WsStep \/ TrafficStep
    \/ MqTransportError \/ WsClosedRemotely

TrafficSpec == TrafficInit /\ [][TrafficNext]_vars

-----------------------------------------------------------------------------
(* The stub WebSocket handler driven by an arbitrary caller: any frame may be
   passed to send_ws_message_stub at any moment of the handler's life, from
   before its run loop starts until after the interrupter has closed it. *)

StubInit ==
    /\ ws_stub = TRUE
    /\ interrupt_secs = RunSecs
    /\ metrics_enabled \in BOOLEAN
    /\ ws_max_connect_attempts = MaxConnectAttempts
    /\ broker_down = FALSE
    /\ Constructed
    /\ q_in = <<>>
    /\ AuxIdle

\* one call of WSHandler.send_ws_message_stub(msg), including the
\* on_message_handler (MQHandler.send_message_from_ws) it calls
StubSend ==
    /\ ws_handler = "WSHandler"
    /\ Len(stub_sent) < MaxStubSends
    /\ \E msg \in 1..MaxStubFrames :
         LET r == send_ws_message_stub(ws_connected, ws_running, msg)
         IN  /\ stub_sent' = Append(stub_sent, [frame |-> msg, connected |-> ws_connected,
                                                running |-> ws_running])
             /\ stub_delivered' = stub_delivered \o r.handed
             /\ IF r.handed = <<>>
                THEN UNCHANGED <<count_to_ws, count_from_ws, q_out, stub_pub>>
                ELSE /\ count_to_ws' = IF metrics_enabled THEN count_to_ws + 1
                                       ELSE count_to_ws
                     /\ count_from_ws' = IF metrics_enabled THEN count_from_ws + 1
                                         ELSE count_from_ws
                     /\ \E fails \in 0..max_retries :
                          LET pub == send_message(channel, fails, consumer_tags, mq_running)
                          IN  /\ q_out' = IF pub = "True" THEN q_out \o r.handed ELSE q_out
                              /\ stub_pub' =
                                     [ch |-> channel, tags |-> consumer_tags,
                                      running |-> mq_running, fails |-> fails,
                                      tries |-> IF pub = "raised" THEN 0
                                                ELSE PublishTries(max_retries, fails,
                                                                  consumer_tags, mq_running),
                                      ret |-> pub]
    /\ UNCHANGED <<count_mq_connection_attempts, count_ws_connection_attempts, slept>>
    /\ UNCHANGED <<q_in, ws_out, unacked, frames, signals, quit_in_steady,
                   transport_errors, connect_failures, remote_closes>>
    /\ UNCHANGED <<cfgVars, bridgeVars, mqVars, wsVars, auxVars>>

StubNext ==
    \/ MainSetup \/ MainStartThreads
    \/ IntStep \/ MqStep \/ MqTransportError
    \/ WsStubStart \/ WsStubExit
    \/ StubSend

StubSpec == StubInit /\ [][StubNext]_vars

-----------------------------------------------------------------------------
(* The same lifecycle under fair scheduling: every thread that can take a
   step eventually takes one.  What the environment does (signals, dropped
   connections) is not forced. *)

Fairness ==
    /\ WF_vars(MainStep)
    /\ WF_vars(IntStep)
    /\ WF_vars(MqStep)
    /\ WF_vars(WsStep)

FairSpec == Init /\ [][Next]_vars /\ Fairness

\* main() has returned and every thread has ended: the process exits
ProcessExited ==
    /\ main_pc = "done"
    /\ ~is_alive(int_pc)
    /\ ~is_alive(mq_pc)
    /\ ~is_alive(ws_pc)

-----------------------------------------------------------------------------
(* Token signing: WSHandler.generate_jwt called with the same arguments, the
   same clock value and the same nonce, several times in each of two separate
   runs of the program.  Python randomises the hash of strings per run, and
   the order in which a set of (key, value) pairs is iterated follows the
   hashes.  A text is a string; a dict is the sequence of its items in
   iteration order, each a pair of the key and the JSON text of the value. *)

Runs == 1..2
MaxHashSeeds == 3
MaxBuilds == 2

\* json.dumps of a string and of an integer
JStr(str) == "\"" \o str \o "\""
JNum(n) == ToString(n)

RECURSIVE JoinItems(_)
JoinItems(items) ==
    IF items = <<>> THEN ""
    ELSE JStr(items[1][1]) \o ": " \o items[1][2]
             \o (IF Len(items) = 1 THEN "" ELSE ", " \o JoinItems(Tail(items)))

\* json.dumps(d) with the default separators
json_dumps(items) == "{" \o JoinItems(items) \o "}"

\* dict(a.items() | b.items()): the items of the union in the set's iteration
\* order, which is some order fixed by the run's hash seed; here the rotations
\* of the listing order, a part of the orders the interpreter can produce
SetOrder(items, seed) ==
    [i \in 1..Len(items) |-> items[((i - 1 + seed) % Len(items)) + 1]]

\* WSHandler.b64encode: base64url without the padding, an injective encoding
\* that is not computed here
b64encode(text) == "b64url(" \o text \o ")"

\* WSHandler.generate_header
generate_header(params, seed) ==
    b64encode(json_dumps(SetOrder(<< <<"alg", JStr("HS256")>>, <<"typ", JStr("JWT")>> >>
                                      \o params, seed)))

\* WSHandler.generate_payload, with time.time() and uuid.uuid4() given
generate_payload(key_id, path, uri, method, payload_params, now, nonce, seed) ==
    b64encode(json_dumps(SetOrder(
        << <<"iss", JStr(key_id)>>,
           <<"kid", JStr(key_id)>>,
           <<"exp", JNum(now + 300)>>,
           <<"nbf", JNum(now - 60)>>,
           <<"iat", JNum(now - 60)>>,
           <<"region", JStr("ny")>>,
           <<"method", JStr(method)>>,
           <<"path", JStr(path)>>,
           <<"host", JStr(uri)>>,
           <<"client_id", JStr(key_id)>>,
           <<"nonce", JStr(nonce)>> >> \o payload_params, seed)))

\* WSHandler.generate_signature: HMAC-SHA256 of the text under the key, a
\* function of both that is not computed here
generate_signature(payload, key_secret) ==
    b64encode("hmac_sha256(" \o key_secret \o ", " \o payload \o ")")

\* WSHandler.generate_jwt
generate_jwt(in, seed) ==
    LET header == generate_header(in.header_params, seed)
        payload == generate_payload(in.key_id, in.path, in.uri, in.method, in.jwt_params,
                                    in.now, in.nonce, seed)
        jwt_header == header \o "." \o payload
        signature == generate_signature(jwt_header, in.key_secret)
    IN  [header |-> header, payload |-> payload, signature |-> signature,
         token |-> jwt_header \o "." \o signature]

\* the bridge itself is constructed and not started
BridgeIdle ==
    /\ ws_stub = FALSE
    /\ interrupt_secs = RunSecs
    /\ metrics_enabled = TRUE
    /\ ws_max_connect_attempts = MaxConnectAttempts
    /\ broker_down = FALSE
    /\ Constructed
    /\ q_in = <<>>

JwtInputs ==
    [key_id : {"cid", "cid2"}, key_secret : {"00ff", "0a0b"}, path : {"/x"},
     uri : {"wss://h"}, method : {"GET"}, now : {1700000000, 1700000060},
     nonce : {"00000000-0000-0000-0000-000000000000",
              "11111111-1111-1111-1111-111111111111"},
     jwt_params : {<<>>, << <<"connection_expiry", JNum(1700000300)>> >>},
     header_params : {<<>>, << <<"cty", JStr("JWT")>> >>}]

JwtInit ==
    /\ BridgeIdle
    /\ SsmIdle
    /\ RepIdle
    /\ LogIdle
    /\ PubIdle
    /\ DltIdle
    /\ jwt_in \in JwtInputs
    /\ jwt_seed \in [Runs -> 0..(MaxHashSeeds - 1)]
    /\ jwt_out = [r \in Runs |-> <<>>]

\* one call of generate_jwt in run r
JwtBuild(r) ==
    /\ Len(jwt_out[r]) < MaxBuilds
    /\ jwt_out' = [jwt_out EXCEPT ![r] = Append(@, generate_jwt(jwt_in, jwt_seed[r]))]
    /\ UNCHANGED <<jwt_in, jwt_seed>>
    /\ UNCHANGED <<cfgVars, bridgeVars, mqVars, wsVars, cntVars, envVars, stubVars, ssmVars, repVars,
                   logVars, pubVars, dltVars>>

JwtNext == \E r \in Runs : JwtBuild(r)

JwtSpec == JwtInit /\ [][JwtNext]_vars

-----------------------------------------------------------------------------
(* Configuration migration: BridgeConfig.convert_ini_to_ssm run repeatedly
   with the same INI file against a parameter store that may already hold
   parameters.  The store is what get_parameter can read back: per name the
   value and the attributes put_parameter was given. *)

MaxMigrations == 3

ssm_base == "/mq2wsbridge"

\* the parameters in the order convert_ini_to_ssm writes them, each with the
\* INI section and option read_config_ini takes it from
Params ==
    << [pname |-> "/aws_mq/mq_broker_id", section |-> "aws_mq", option |-> "mq_broker_id"],
       [pname |-> "/aws_mq/mq_port", section |-> "aws_mq", option |-> "mq_port"],
       [pname |-> "/aws_mq/mq_userid", section |-> "aws_mq", option |-> "mq_user_id"],
       [pname |-> "/aws_mq/mq_password", section |-> "aws_mq", option |-> "mq_password"],
       [pname |-> "/aws_mq/mq_region", section |-> "aws_mq", option |-> "mq_region"],
       [pname |-> "/aws_mq/mq_qname_to_ws", section |-> "aws_mq", option |-> "mq_qname_to_ws"],
       [pname |-> "/aws_mq/mq_qname_from_ws", section |-> "aws_mq",
        option |-> "mq_qname_from_ws"],
       [pname |-> "/aws_mq/mq_ttl_from_ws", section |-> "aws_mq", option |-> "mq_ttl_from_ws"],
       [pname |-> "/aws_mq/mq_consumer_tag", section |-> "aws_mq",
        option |-> "mq_consumer_tag"],
       [pname |-> "/aws_cloudwatch/cw_region", section |-> "aws_cloudwatch",
        option |-> "cw_region"],
       [pname |-> "/aws_cloudwatch/cw_log_group", section |-> "aws_cloudwatch",
        option |-> "cw_log_group"],
       [pname |-> "/aws_cloudwatch/cw_log_stream", section |-> "aws_cloudwatch",
        option |-> "cw_log_stream"],
       [pname |-> "/aws_cloudwatch/cw_retention_days", section |-> "aws_cloudwatch",
        option |-> "cw_retention_days"],
       [pname |-> "/aws_cloudwatch/cw_metrics_namespace", section |-> "aws_cloudwatch",
        option |-> "cw_metrics_namespace"],
       [pname |-> "/aws_cloudwatch/cw_metrics_resolution", section |-> "aws_cloudwatch",
        option |-> "cw_metrics_resolution"],
       [pname |-> "/ws_api/ws_api_host", section |-> "ws_api", option |-> "api_host"],
       [pname |-> "/ws_api/ws_api_uri", section |-> "ws_api", option |-> "api_uri"],
       [pname |-> "/ws_api/ws_client_id", section |-> "ws_api", option |-> "client_id"],
       [pname |-> "/ws_api/ws_client_password", section |-> "ws_api",
        option |-> "client_secret"],
       [pname |-> "/ws_api/ws_ping_interval", section |-> "ws_api",
        option |-> "ws_ping_interval"],
       [pname |-> "/ws_api/ws_max_connect_attempts", section |-> "ws_api",
        option |-> "ws_max_connect_attempts"],
       [pname |-> "/ws_api/ws_attempt_window_secs", section |-> "ws_api",
        option |-> "ws_attempt_window_secs"] >>

ParamIds == 1..Len(Params)

\* the names the store is observed at: the bridge's and one that is not
StoreNames == {ssm_base \o Params[i].pname : i \in ParamIds} \cup {"/other/parameter"}

\* a faulty write that adds to the value it finds
write_parameter_Appends(store, pname, pval) ==
    [store EXCEPT ![ssm_base \o pname] =
        << [Value |-> (IF @ = <<>> THEN "" ELSE @[1].Value) \o pval,
            Description |-> "migrated from INI", Type |-> "SecureString",
            KeyId |-> "alias/aws/ssm"] >>]

\* write_parameter: put_parameter(..., Overwrite=True)
write_parameter(store, pname, pval) ==
    [store EXCEPT ![ssm_base \o pname] =
        << [Value |-> pval, Description |-> "migrated from INI", Type |-> "SecureString",
            KeyId |-> "alias/aws/ssm"] >>]

\* the store after the first n parameters are written
RECURSIVE WriteFirst(_, _, _)
WriteFirst(store, content, n) ==
    IF n = 0 THEN store
    ELSE write_parameter(WriteFirst(store, content, n - 1), Params[n].pname, content[n][1])

\* put_parameter rejects an empty Value: the number of parameters written
\* before the first such value, all of them if there is none
WritableCount(content) ==
    IF \E i \in ParamIds : content[i][1] = ""
    THEN (CHOOSE i \in ParamIds : /\ content[i][1] = ""
                                  /\ \A j \in 1..(i - 1) : content[j][1] # "") - 1
    ELSE Len(Params)

\* BridgeConfig.convert_ini_to_ssm: what it returns and the store it leaves.
\* read_config_ini raises KeyError on a missing option before anything is
\* written.
convert_ini_to_ssm(region, content, store) ==
    IF region = "None" THEN [ret |-> "False", store |-> store]
    ELSE IF \E i \in ParamIds : content[i] = <<>> THEN [ret |-> "raised", store |-> store]
    ELSE [ret |-> IF WritableCount(content) = Len(Params) THEN "True" ELSE "raised",
          store |-> WriteFirst(store, content, WritableCount(content))]

\* INI files: every option set to one value, or that with one option given
\* another value, left empty, or left out
IniContents ==
    LET Uniform(v) == [i \in ParamIds |-> <<v>>]
    IN  {Uniform(v) : v \in {"a", "b"}}
        \cup {[Uniform("a") EXCEPT ![k] = w] : k \in ParamIds, w \in {<<"z">>, <<"">>, <<>>}}

\* stores: empty, holding older values of every parameter, holding an
\* unrelated parameter
StoreContents ==
    LET Old(v) == << [Value |-> v, Description |-> "by hand", Type |-> "String",
                      KeyId |-> ""] >>
    IN  { [n \in StoreNames |-> <<>>],
          [n \in StoreNames |-> Old("a")],
          [n \in StoreNames |-> IF n = "/other/parameter" THEN Old("keep") ELSE <<>>] }

SsmInit ==
    /\ BridgeIdle
    /\ JwtIdle
    /\ RepIdle
    /\ LogIdle
    /\ PubIdle
    /\ DltIdle
    /\ config_ssm \in {"None", "us-east-1"}
    /\ ini \in IniContents
    /\ ssm_store \in StoreContents
    /\ ssm_first = <<>>
    /\ ssm_ret = <<>>

\* one run of --migrate
Migrate ==
    /\ Len(ssm_ret) < MaxMigrations
    /\ LET r == convert_ini_to_ssm(config_ssm, ini, ssm_store)
       IN  /\ ssm_store' = r.store
           /\ ssm_ret' = Append(ssm_ret, r.ret)
           /\ ssm_first' = IF ssm_ret = <<>> THEN <<r.store>> ELSE ssm_first
    /\ UNCHANGED <<config_ssm, ini>>
    /\ UNCHANGED <<cfgVars, bridgeVars, mqVars, wsVars, cntVars, envVars, stubVars, jwtVars, repVars,
                   logVars, pubVars, dltVars>>

SsmNext == Migrate

SsmSpec == SsmInit /\ [][SsmNext]_vars

-----------------------------------------------------------------------------
(* The metrics reporter thread, with a sink that may fail at any of the eight
   put_metric_data calls of an iteration, handlers that advance the counters,
   and a signal that trips shutdown.  Log lines go to standard output, the
   default, where writing a line does not fail. *)

MaxSinkErrors == 2
MaxCount == 2
PutsPerIteration == 8

\* what put_metric_data can raise: the ClientError it logs and re-raises, and
\* anything else the client raises, which it lets through
SinkExceptions == {"ClientError", "EndpointConnectionError"}

\* a faulty handler: except ClientError
reporter_catches_ClientErrorOnly(exc) == exc = "ClientError"

\* metrics_reporter's `except Exception`
reporter_catches(exc) == exc \in SinkExceptions

\* the last_* locals after an iteration whose put number `failed` raised (0:
\* none did): each is assigned after the two puts of its counter
sample_after(last, failed) ==
    LET done(n) == failed = 0 \/ failed > n
    IN  [mq_connection_attempts |->
             IF done(2) THEN count_mq_connection_attempts ELSE last.mq_connection_attempts,
         ws_connection_attempts |->
             IF done(4) THEN count_ws_connection_attempts ELSE last.ws_connection_attempts,
         to_ws |-> IF done(6) THEN count_to_ws ELSE last.to_ws,
         from_ws |-> IF done(8) THEN count_from_ws ELSE last.from_ws]

RepInit ==
    /\ ws_stub = FALSE
    /\ interrupt_secs = RunSecs
    /\ metrics_enabled \in BOOLEAN
    /\ ws_max_connect_attempts = MaxConnectAttempts
    /\ broker_down = FALSE
    /\ Constructed
    /\ q_in = <<>>
    /\ JwtIdle
    /\ SsmIdle
    /\ RepIdle
    /\ LogIdle
    /\ PubIdle
    /\ DltIdle

\* metrics_reporter up to its loop: the thread, started by main() along with
\* the workers, returns at once if metrics are not enabled
RepStart ==
    /\ rep_pc = "idle"
    /\ main_pc \notin {"setup", "aborted"}
    /\ IF metrics_enabled = FALSE
       THEN rep_pc' = "done" /\ rep_exit' = "disabled"
       ELSE rep_pc' = "test" /\ UNCHANGED rep_exit
    /\ UNCHANGED <<rep_last, rep_errors>>
    /\ UNCHANGED <<cfgVars, bridgeVars, mqVars, wsVars, cntVars, envVars, stubVars,
                   jwtVars, ssmVars, logVars, pubVars, dltVars>>

\* while self.sb_handle.server_running is True
RepTest ==
    /\ rep_pc = "test"
    /\ IF server_running = TRUE
       THEN rep_pc' = "report" /\ UNCHANGED rep_exit
       ELSE rep_pc' = "done" /\ rep_exit' = "stopped"
    /\ UNCHANGED <<rep_last, rep_errors>>
    /\ UNCHANGED <<cfgVars, bridgeVars, mqVars, wsVars, cntVars, envVars, stubVars,
                   jwtVars, ssmVars, logVars, pubVars, dltVars>>

\* the body of the loop: the wait on metrics_sleeper returns (timeout or set),
\* then the eight puts, of which one may raise
RepIterate ==
    /\ rep_pc = "report"
    /\ \/ /\ rep_last' = sample_after(rep_last, 0)
          /\ rep_pc' = "test"
          /\ UNCHANGED <<rep_errors, rep_exit>>
       \/ /\ rep_errors < MaxSinkErrors
          /\ \E failed \in 1..PutsPerIteration, exc \in SinkExceptions :
               /\ rep_last' = sample_after(rep_last, failed)
               /\ IF reporter_catches(exc)
                  THEN /\ rep_pc' = "test"
                       /\ rep_errors' = rep_errors + 1
                       /\ UNCHANGED rep_exit
                  ELSE /\ rep_pc' = "dead"
                       /\ rep_exit' = exc
                       /\ UNCHANGED rep_errors
    /\ UNCHANGED <<cfgVars, bridgeVars, mqVars, wsVars, cntVars, envVars, stubVars,
                   jwtVars, ssmVars, logVars, pubVars, dltVars>>

\* the handlers at work: one of the four counters advances
CounterTick ==
    /\ main_pc \notin {"setup", "aborted"}
    /\ \/ /\ count_to_ws < MaxCount
          /\ count_to_ws' = count_to_ws + 1
          /\ UNCHANGED <<count_from_ws, count_mq_connection_attempts,
                         count_ws_connection_attempts>>
       \/ /\ count_from_ws < MaxCount
          /\ count_from_ws' = count_from_ws + 1
          /\ UNCHANGED <<count_to_ws, count_mq_connection_attempts,
                         count_ws_connection_attempts>>
       \/ /\ count_mq_connection_attempts < MaxCount
          /\ count_mq_connection_attempts' = count_mq_connection_attempts + 1
          /\ UNCHANGED <<count_to_ws, count_from_ws, count_ws_connection_attempts>>
       \/ /\ count_ws_connection_attempts < MaxCount
          /\ count_ws_connection_attempts' = count_ws_connection_attempts + 1
          /\ UNCHANGED <<count_to_ws, count_from_ws, count_mq_connection_attempts>>
    /\ UNCHANGED slept
    /\ UNCHANGED <<cfgVars, bridgeVars, mqVars, wsVars, envVars, stubVars, auxVars>>

RepNext ==
    \/ MainSetup \/ MainStartThreads \/ quit
    \/ RepStart \/ RepTest \/ RepIterate
    \/ CounterTick

RepSpec == RepInit /\ [][RepNext]_vars

-----------------------------------------------------------------------------
(* The log sink: threads of the bridge calling LogHandler.output_log_message
   while logs go to CloudWatch.  A thread that finds the mutex locked waits;
   its acquire(timeout=3000) returns False if the mutex is not freed in that
   time.  Time is not measured: a wait may time out whenever the mutex is
   locked. *)

MaxLogEvents == 2

\* a call starts: the event is built (the cw_logger is not None branch)
LogCall(t) ==
    /\ log_pc[t] = "idle"
    /\ cw_seq_token + log_raised < MaxLogEvents
    /\ log_pc' = [log_pc EXCEPT ![t] = "acquire"]
    /\ UNCHANGED <<log_acquired, cw_mutex, cw_seq_token, log_raised>>
    /\ UNCHANGED <<cfgVars, bridgeVars, mqVars, wsVars, cntVars, envVars, stubVars,
                   jwtVars, ssmVars, repVars, pubVars, dltVars>>

\* self.cw_mutex.acquire(timeout=3000): returns True with the mutex taken,
\* or False after the timeout; the result is not looked at and the thread
\* goes on into the try block either way
LogAcquire(t) ==
    /\ log_pc[t] = "acquire"
    /\ IF cw_mutex = FALSE
       THEN /\ cw_mutex' = TRUE
            /\ log_acquired' = [log_acquired EXCEPT ![t] = TRUE]
       ELSE /\ log_acquired' = [log_acquired EXCEPT ![t] = FALSE]
            /\ UNCHANGED cw_mutex
    /\ log_pc' = [log_pc EXCEPT ![t] = "put"]
    /\ UNCHANGED <<cw_seq_token, log_raised>>
    /\ UNCHANGED <<cfgVars, bridgeVars, mqVars, wsVars, cntVars, envVars, stubVars,
                   jwtVars, ssmVars, repVars, pubVars, dltVars>>

\* the try block: read the token into the event, put_log_events, store the
\* next token; put_log_events may raise, which leaves the token as it was
LogPut(t) ==
    /\ log_pc[t] = "put"
    /\ \E ok \in BOOLEAN :
         cw_seq_token' = IF ok THEN cw_seq_token + 1 ELSE cw_seq_token
    /\ log_pc' = [log_pc EXCEPT ![t] = "release"]
    /\ log_raised' = IF cw_seq_token' = cw_seq_token THEN log_raised + 1 ELSE log_raised
    /\ UNCHANGED <<log_acquired, cw_mutex>>
    /\ UNCHANGED <<cfgVars, bridgeVars, mqVars, wsVars, cntVars, envVars, stubVars,
                   jwtVars, ssmVars, repVars, pubVars, dltVars>>

\* finally: self.cw_mutex.release(), whoever locked it; RuntimeError if it is
\* not locked
LogRelease(t) ==
    /\ log_pc[t] = "release"
    /\ cw_mutex' = FALSE
    /\ log_raised' = IF cw_mutex = FALSE THEN log_raised + 1 ELSE log_raised
    /\ log_pc' = [log_pc EXCEPT ![t] = "idle"]
    /\ log_acquired' = [log_acquired EXCEPT ![t] = FALSE]
    /\ UNCHANGED cw_seq_token
    /\ UNCHANGED <<cfgVars, bridgeVars, mqVars, wsVars, cntVars, envVars, stubVars,
                   jwtVars, ssmVars, repVars, pubVars, dltVars>>

LogInit ==
    /\ BridgeIdle
    /\ JwtIdle
    /\ SsmIdle
    /\ RepIdle
    /\ LogIdle
    /\ PubIdle
    /\ DltIdle

LogNext ==
    \E t \in LogThreads : LogCall(t) \/ LogAcquire(t) \/ LogPut(t) \/ LogRelease(t)

LogSpec == LogInit /\ [][LogNext]_vars

-----------------------------------------------------------------------------
(* The messages the broker handler builds for Q_OUT: setup_mqhandler takes
   the TTL from the configuration, send_message is then called with any body
   in any state of the channel and the handler. *)

MaxPublished == 4
DefaultTtl == 300

\* setup_mqhandler: int(config.mq_ttl_from_ws), 300 if it is None
configured_ttl(cfg) == IF cfg = <<>> THEN DefaultTtl ELSE cfg[1]

\* send_message: the properties given to Message.create
message_properties(ttl) ==
    [content_type |-> "text/plain", expiration |-> ToString(ttl)]

PubInit ==
    /\ BridgeIdle
    /\ JwtIdle
    /\ SsmIdle
    /\ RepIdle
    /\ LogIdle
    /\ mq_ttl_from_ws \in {<<>>, <<1>>, <<60>>, <<300>>, <<3600>>}
    /\ ttl_from_ws = 0
    /\ pub_out = <<>>
    /\ DltIdle

\* MQHandler.setup_mqhandler, as far as the TTL goes
PubSetup ==
    /\ ttl_from_ws = 0
    /\ ttl_from_ws' = configured_ttl(mq_ttl_from_ws)
    /\ UNCHANGED <<mq_ttl_from_ws, pub_out>>
    /\ UNCHANGED <<cfgVars, bridgeVars, mqVars, wsVars, cntVars, envVars, stubVars,
                   jwtVars, ssmVars, repVars, logVars, dltVars>>

\* one call of send_message(exchange, routing_key, body): the message is
\* published if the call returns true
PubSend ==
    /\ ttl_from_ws # 0
    /\ Len(pub_out) < MaxPublished
    /\ \E body \in 1..MaxStubFrames, ch \in {"None", "open", "closed"}, tags \in BOOLEAN,
          running \in BOOLEAN, fails \in 0..max_retries :
         pub_out' = IF send_message(ch, fails, tags, running) = "True"
                    THEN Append(pub_out, [body |-> body,
                                          properties |-> message_properties(ttl_from_ws)])
                    ELSE pub_out
    /\ UNCHANGED <<mq_ttl_from_ws, ttl_from_ws>>
    /\ UNCHANGED <<cfgVars, bridgeVars, mqVars, wsVars, cntVars, envVars, stubVars,
                   jwtVars, ssmVars, repVars, logVars, dltVars>>

PubNext == PubSetup \/ PubSend

PubSpec == PubInit /\ [][PubNext]_vars

-----------------------------------------------------------------------------
(* The metrics reporter against handlers that advance the counters while an
   iteration is under way: an iteration reads each counter three times, for
   the total it puts, for the delta it puts and for the sample it keeps.  The
   sink accepts every put. *)

MaxIterations == 2

\* the counters in the order an iteration reports them
CounterNames ==
    <<"mq_connection_attempts", "ws_connection_attempts", "to_ws", "from_ws">>

\* self.count_<name>
counter(name) ==
    CASE name = "mq_connection_attempts" -> count_mq_connection_attempts
      [] name = "ws_connection_attempts" -> count_ws_connection_attempts
      [] name = "to_ws" -> count_to_ws
      [] name = "from_ws" -> count_from_ws

\* put_metric_data(..., '<name>_total', self.count_<name>, 'Count')
RepReadTotal ==
    /\ rep_pc = "report"
    /\ rep_at.read = "total"
    /\ rep_at.k = 1 => rep_iters < MaxIterations
    /\ rep_iters' = IF rep_at.k = 1 THEN rep_iters + 1 ELSE rep_iters
    /\ rep_at' = [rep_at EXCEPT !.read = "delta"]
    /\ UNCHANGED <<rep_emitted, rep_delta>>
    /\ UNCHANGED <<cfgVars, bridgeVars, mqVars, wsVars, cntVars, envVars, stubVars,
                   jwtVars, ssmVars, repVars, logVars, pubVars>>

\* put_metric_data(..., '<name>_recent', self.count_<name> - last_<name>, 'Count')
RepReadDelta ==
    /\ rep_pc = "report"
    /\ rep_at.read = "delta"
    /\ LET name == CounterNames[rep_at.k]
           delta == counter(name) - rep_last[name]
       IN  /\ rep_delta' = delta
           /\ rep_emitted' = [rep_emitted EXCEPT ![name] = @ + delta]
    /\ rep_at' = [rep_at EXCEPT !.read = "sample"]
    /\ UNCHANGED rep_iters
    /\ UNCHANGED <<cfgVars, bridgeVars, mqVars, wsVars, cntVars, envVars, stubVars,
                   jwtVars, ssmVars, repVars, logVars, pubVars>>

\* last_<name> = self.count_<name>; after the fourth counter the iteration
\* is over
RepReadSample ==
    /\ rep_pc = "report"
    /\ rep_at.read = "sample"
    /\ LET name == CounterNames[rep_at.k]
       IN  rep_last' = [rep_last EXCEPT ![name] = counter(name)]
    /\ IF rep_at.k < Len(CounterNames)
       THEN /\ rep_at' = [k |-> rep_at.k + 1, read |-> "total"]
            /\ UNCHANGED rep_pc
       ELSE /\ rep_at' = [k |-> 1, read |-> "total"]
            /\ rep_pc' = "test"
    /\ UNCHANGED <<rep_errors, rep_exit>>
    /\ UNCHANGED <<rep_iters, rep_emitted, rep_delta>>
    /\ UNCHANGED <<cfgVars, bridgeVars, mqVars, wsVars, cntVars, envVars, stubVars,
                   jwtVars, ssmVars, logVars, pubVars>>

\* a handler connects anew and numbers its attempts from 1 again:
\* create_connection's `attempts = 0`, run_ws_server's `attempt = 0`
CounterRestart ==
    /\ \/ /\ count_mq_connection_attempts > 1
          /\ count_mq_connection_attempts' = 1
          /\ UNCHANGED count_ws_connection_attempts
       \/ /\ count_ws_connection_attempts > 1
          /\ count_ws_connection_attempts' = 1
          /\ UNCHANGED count_mq_connection_attempts
    /\ UNCHANGED <<count_to_ws, count_from_ws, slept>>
    /\ UNCHANGED <<cfgVars, bridgeVars, mqVars, wsVars, envVars, stubVars, auxVars>>

DltInit ==
    /\ BridgeIdle
    /\ AuxIdle

DltNext ==
    \/ MainSetup \/ MainStartThreads \/ quit
    \/ RepStart \/ RepTest \/ RepReadTotal \/ RepReadDelta \/ RepReadSample
    \/ CounterTick \/ CounterRestart

DltSpec == DltInit /\ [][DltNext]_vars

-----------------------------------------------------------------------------
(* Claims *)

\* C1: a delivery that passed the running check and whose forward returned
\* true is acked exactly once and never rejected; one whose forward returned
\* anything else is rejected with requeue exactly once and never acked; no
\* delivery is acked unless its forward returned true.
C1_AckIffForwardTrue ==
    /\ (cb_pc = "idle" /\ cur.fwd = "true") =>
           (cur.running = TRUE /\ cur.acks = 1 /\ cur.rejects = 0)
    /\ (cb_pc = "idle" /\ cur.fwd = "false") =>
           (cur.running = TRUE /\ cur.rejects = 1 /\ cur.acks = 0)
    /\ cur.acks > 0 => cur.fwd = "true"

\* a delivery was forwarded, forward returned true, and it was acked
C1_Witness ==
    /\ cb_pc = "idle"
    /\ cur.body # 0
    /\ cur.fwd = "true"
    /\ cur.acks = 1
    /\ cur.ret = "True"

\* C2: a delivery made while mq_running is false is rejected with requeue,
\* forward is not invoked, the callback returns false and the message is
\* still on Q_IN.
C2_NotRunningRequeues ==
    (cur.body # 0 /\ cur.running = FALSE) =>
        /\ cur.rejects = 1
        /\ cur.acks = 0
        /\ cur.fwd = "none"
        /\ cur.ret = "False"
        /\ \E i \in 1..Len(q_in) : q_in[i] = cur.body

\* the callback ran while mq_running was false
C2_Witness ==
    /\ cur.body # 0
    /\ cur.running = FALSE
    /\ cur.rejects = 1

\* the broker still delivers to MQHandler.__call__
ConsumerRegistered ==
    /\ mq_pc = "consuming"
    /\ channel = "open"
    /\ consumer_tags

\* the WebSocket library still delivers to WSHandler.on_message
SessionOpen ==
    /\ ws_pc = "session"
    /\ ws_handle = "open"

\* C3: once main() has returned from the shutdown sequence, with the
\* interrupter woken and run to its end, both handlers report running = false
\* and neither MQHandler.__call__ nor WSHandler.on_message can be invoked.
C3_ShutdownQuiesces ==
    (main_pc = "done" /\ int_pc \in {"done", "dead"}) =>
        /\ mq_running = FALSE
        /\ ws_running = FALSE
        /\ ~ConsumerRegistered
        /\ ~SessionOpen

\* C4: a signal delivered in steady state leads to both handlers not
\* running, both workers ended and main() returned with exit code 0.
C4_SignalStopsBridge ==
    quit_in_steady ~>
        (/\ mq_running = FALSE
         /\ ws_running = FALSE
         /\ ~is_alive(mq_pc)
         /\ ~is_alive(ws_pc)
         /\ main_pc = "done"
         /\ exit_code = 0)

\* C5: whenever ws_failed is set, eventually shutdown is tripped and
\* ws_running is false.
C5_FailedLeadsToStop ==
    (ws_failed # "None") ~> (server_running = FALSE /\ ws_running = FALSE)

\* C6: ws_connected implies ws_running in every reachable state.
C6_ConnectedImpliesRunning ==
    ws_connected = TRUE => ws_running = TRUE

\* C7: none of the four counters ever decreases.
C7_CountersMonotonic ==
    [][/\ count_to_ws' >= count_to_ws
       /\ count_from_ws' >= count_from_ws
       /\ count_mq_connection_attempts' >= count_mq_connection_attempts
       /\ count_ws_connection_attempts' >= count_ws_connection_attempts]_vars

\* C8: when the process exits after the WebSocket handler recorded a
\* terminal failure, the exit code is 1.
C8_ExitOneOnWsFailure ==
    (ProcessExited /\ ws_failed # "None") => exit_code = 1

\* C9: with every broker connect failing, once create_connection has used
\* up max_retries and the process exits, the broker handler is not running,
\* shutdown was tripped and the exit code is 1.
C9_BrokerDownExitsOne ==
    (ProcessExited /\ broker_down /\ attempts > max_retries) =>
        /\ mq_running = FALSE
        /\ server_running = FALSE
        /\ exit_code = 1

\* the frames of the calls made so far, in call order
StubFramesSent == [i \in 1..Len(stub_sent) |-> stub_sent[i].frame]

\* a call made while the handler was connected and running
StubCallLive(c) == c.connected = TRUE /\ c.running = TRUE

RECURSIVE FramesOf(_)
FramesOf(calls) ==
    IF calls = <<>> THEN <<>>
    ELSE <<Head(calls).frame>> \o FramesOf(Tail(calls))

\* C10 as stated: the frames delivered to on_message_handler are exactly the
\* frames passed to send_ws_message_stub, in order.
C10_StubMirrorsAll ==
    stub_delivered = StubFramesSent

\* C10, amended: the frames delivered to on_message_handler are exactly the
\* frames passed to send_ws_message_stub while ws_connected and ws_running
\* were both true, in order and without duplicates; frames passed at any
\* other moment are dropped.
C10_StubMirrorsLive ==
    stub_delivered = FramesOf(SelectSeq(stub_sent, StubCallLive))

\* frames were mirrored and at least one was dropped
C10_Witness ==
    /\ Len(stub_delivered) >= 2
    /\ Len(stub_delivered) < Len(stub_sent)
    /\ \E i \in 1..Len(stub_sent) : stub_sent[i].running = FALSE

-----------------------------------------------------------------------------
\* a step in which WSHandler.send_ws_message(cur.body) runs and returns
SendWsStep ==
    /\ ~ws_stub
    /\ cb_pc = "forward"
    /\ cb_pc' = "idle"

\* C11 as stated: with ws_connected and ws_running the frame is sent, the
\* to-WS counter grows by one and send returns true; otherwise no frame is
\* sent, the counter is unchanged and send returns false.
C11_SendContract ==
    [][SendWsStep =>
         IF ws_connected = TRUE /\ ws_running = TRUE
         THEN /\ ws_out' = Append(ws_out, cur.body)
              /\ count_to_ws' = count_to_ws + 1
              /\ cur'.fwd = "true"
         ELSE /\ ws_out' = ws_out
              /\ count_to_ws' = count_to_ws
              /\ cur'.fwd = "false"]_vars

\* C11, amended: send returns true exactly when it sent the frame, which it
\* does only with ws_connected and ws_running both true (and not when the
\* library's send raises); in every other case no frame is sent and it
\* returns false.  The to-WS counter grows by exactly one when send returns
\* true and metrics are enabled, and is unchanged otherwise.
C11_SendContractAmended ==
    [][SendWsStep =>
         /\ cur'.fwd \in {"true", "false"}
         /\ ~(ws_connected = TRUE /\ ws_running = TRUE) => cur'.fwd = "false"
         /\ ws_out' = IF cur'.fwd = "true" THEN Append(ws_out, cur.body) ELSE ws_out
         /\ count_to_ws' = IF cur'.fwd = "true" /\ metrics_enabled THEN count_to_ws + 1
                           ELSE count_to_ws]_vars

\* send returned true, the frame went out and was counted
C11_Witness ==
    /\ ~ws_stub
    /\ metrics_enabled
    /\ cb_pc = "idle"
    /\ cur.fwd = "true"
    /\ ws_out = <<cur.body>>
    /\ count_to_ws = 1

-----------------------------------------------------------------------------
\* C12: send_message calls message.publish at most max_retries times and
\* returns true if and only if one of those calls succeeded; when max_retries
\* calls all fail it returns false.
C12_PublishRetries ==
    stub_pub.ret \in {"True", "False"} =>
        /\ stub_pub.tries <= max_retries
        /\ stub_pub.ret = "True" <=> stub_pub.tries > stub_pub.fails
        /\ stub_pub.fails >= max_retries => stub_pub.ret = "False"

\* every one of max_retries publish calls failed and send_message returned false
C12_Witness ==
    /\ stub_pub.tries = max_retries
    /\ stub_pub.fails = max_retries
    /\ stub_pub.ret = "False"

\* C13: no error of the broker library leaves a handler: send_message
\* returns a boolean to its caller whatever the library raises, and the broker
\* worker is never ended by an exception.
C13_ErrorsContained ==
    /\ stub_pub.ret # "raised"
    /\ mq_pc # "dead"

-----------------------------------------------------------------------------
\* a step in which a WebSocket session ends and run_forever returns
SessionEndStep ==
    /\ ws_pc = "session"
    /\ ws_pc' = "loop"

\* C14: once ws_max_connect_attempts sessions in a row have each ended within
\* the attempt window, run_ws_server makes no further attempt: it is at its
\* loop test with the budget used up, or has set ws_failed to the
\* attempts-exceeded reason and returned.
C14_BudgetExhausted ==
    (~ws_stub /\ ws_max_connect_attempts > 0
              /\ short_sessions >= ws_max_connect_attempts) =>
        \/ ws_pc = "loop" /\ attempt >= ws_max_connect_attempts
        \/ ws_pc = "done" /\ ws_failed = AttemptsExceeded

\* the budget was used up by short sessions while the handler was running
C14_Witness ==
    /\ ~ws_stub
    /\ ws_max_connect_attempts = MaxConnectAttempts
    /\ short_sessions = ws_max_connect_attempts
    /\ ws_running = TRUE
    /\ ws_pc = "done"
    /\ ws_failed = AttemptsExceeded

\* C15: with ws_max_connect_attempts = 0 run_ws_server never builds a
\* WebSocketApp, never opens a session and leaves the ws-connect-attempts
\* counter alone, and when it returns ws_failed holds the attempts-exceeded
\* reason.
C15_ZeroBudget ==
    (~ws_stub /\ ws_max_connect_attempts = 0) =>
        /\ count_ws_connection_attempts = 0
        /\ attempt = 0
        /\ ws_handle = "None"
        /\ ws_connected = FALSE
        /\ ws_pc \in {"idle", "start", "loop", "done"}
        /\ ws_pc = "done" => ws_failed = AttemptsExceeded

\* the run loop returned at once with the failure recorded
C15_Witness ==
    /\ ~ws_stub
    /\ ws_max_connect_attempts = 0
    /\ ws_pc = "done"
    /\ ws_failed = AttemptsExceeded
    /\ count_ws_connection_attempts = 0

\* C16: when a session ends, attempt becomes 0 if the session lasted strictly
\* longer than the attempt window and is unchanged otherwise; attempt never
\* decreases in any other step.
C16_WindowReset ==
    [][/\ SessionEndStep =>
            attempt' = IF last_elapsed' > AttemptWindowSecs THEN 0 ELSE attempt
       /\ attempt' < attempt =>
            SessionEndStep /\ last_elapsed' > AttemptWindowSecs]_vars

\* a session that outlived the window has just ended and reset the counter
C16_Witness ==
    /\ ws_pc = "loop"
    /\ last_elapsed = AttemptWindowSecs + 1
    /\ attempt = 0
    /\ count_ws_connection_attempts = MaxConnectAttempts

-----------------------------------------------------------------------------
\* a step in which a broker connect fails and create_connection retries
ConnectRetryStep ==
    /\ mq_pc = "connect"
    /\ attempts' = attempts + 1
    /\ mq_pc' = "connect"

\* C17: the sleep taken after the n-th failed broker connect is min(2n, 30)
\* seconds, and the backoff of no attempt number exceeds 30 seconds (with
\* max_retries = 5 the worker itself sleeps after attempts 1 to 5 only).
C17_BackoffCapped ==
    [][ConnectRetryStep =>
         /\ slept' = (IF 2 * attempts' < 30 THEN 2 * attempts' ELSE 30)
         /\ slept' <= 30
         /\ \A n \in 1..MaxBackoffAttempts :
              /\ backoff(n) = (IF 2 * n < 30 THEN 2 * n ELSE 30)
              /\ backoff(n) <= 30]_vars

\* the broker worker has slept after its max_retries-th failed connect
C17_Witness ==
    /\ mq_pc = "connect"
    /\ attempts = max_retries
    /\ slept = 2 * max_retries

-----------------------------------------------------------------------------
\* s lists its elements in the order of their numbering (Q_IN holds messages
\* 1, 2, ... from its head; frames from the remote endpoint are numbered in
\* the order they arrive)
InSourceOrder(s) == \A i, j \in 1..Len(s) : i < j => s[i] <= s[j]

-----------------------------------------------------------------------------
\* C19: MQHandler.close is idempotent.  Whenever the handler holds an open
\* channel and an open connection, a first close() cancels the consumer and
\* closes both, and a second close() completes without an exception and
\* leaves channel and connection as the first call left them.
C19_CloseIdempotent ==
    LET first == MQClose(channel, connection)
        second == MQClose(first.channel, first.connection)
    IN  (channel = "open" /\ connection = "open") =>
            /\ ~first.raised
            /\ ~second.raised
            /\ second.channel = first.channel
            /\ second.connection = first.connection

-----------------------------------------------------------------------------
\* C20: once main() has tripped shutdown and gone through its two timed
\* joins, the process exits, whether or not a worker thread has finished.
C20_ExitsDespiteWorker ==
    (main_pc = "done") ~> ProcessExited

-----------------------------------------------------------------------------
\* C21: the signed token is a function of its inputs.  All tokens built with
\* the same arguments, clock value and nonce have the same header, the same
\* payload and the same signature, within one run of the program and across
\* separate runs.
C21_TokenDeterministic ==
    \A r1, r2 \in Runs :
        \A i \in 1..Len(jwt_out[r1]), j \in 1..Len(jwt_out[r2]) :
            /\ jwt_out[r1][i].header = jwt_out[r2][j].header
            /\ jwt_out[r1][i].payload = jwt_out[r2][j].payload
            /\ jwt_out[r1][i].signature = jwt_out[r2][j].signature

-----------------------------------------------------------------------------
\* C22: the migration is idempotent.  After the first run of
\* convert_ini_to_ssm every further run with the same INI file returns what
\* the first returned and leaves the store exactly as the first left it.
C22_MigrationIdempotent ==
    Len(ssm_ret) >= 2 =>
        /\ ssm_store = ssm_first[1]
        /\ \A k \in 1..Len(ssm_ret) : ssm_ret[k] = ssm_ret[1]
        /\ convert_ini_to_ssm(config_ssm, ini, ssm_store).store = ssm_store

\* two complete migrations over a store that held older values
C22_Witness ==
    /\ ssm_ret = <<"True", "True">>
    /\ ini[1] = <<"b">>
    /\ ssm_store[ssm_base \o "/aws_mq/mq_broker_id"][1].Value = "b"
    /\ ssm_store["/other/parameter"] # <<>>
    /\ ssm_store["/other/parameter"][1].Value = "a"

-----------------------------------------------------------------------------
-----------------------------------------------------------------------------
\* C24: the sequence token is used by at most one thread at a time.  A thread
\* is between reading the token and releasing the mutex only if its acquire
\* returned True, and no two threads are there together; a thread whose
\* acquire timed out neither reaches the token nor releases the mutex.
C24_TokenGuarded ==
    /\ \A t \in LogThreads : log_pc[t] \in {"put", "release"} => log_acquired[t] = TRUE
    /\ Cardinality({t \in LogThreads : log_pc[t] \in {"put", "release"}}) <= 1

-----------------------------------------------------------------------------
\* C25: main() starts the broker thread, then the interrupter thread, then
\* the WebSocket thread: the interrupter is never started while the broker
\* thread is not, nor the WebSocket thread while the interrupter is not.
C25_LaunchOrder ==
    /\ int_pc # "idle" => mq_pc # "idle"
    /\ ws_pc # "idle" => int_pc # "idle"

-----------------------------------------------------------------------------
\* one iteration of the startup poll, before the polls are used up
PollStep ==
    /\ main_pc = "poll"
    /\ poll < MaxPolls
    /\ (poll' # poll \/ main_pc' # "poll")

\* C26: a startup poll that finds the WebSocket handler's failed flag set
\* clears server_running, wakes the interrupter, ends the polling and records
\* a non-zero exit code; one that finds the flag unset and both handlers
\* ready ends the polling with the exit code still 0.
C26_PollSeesFailure ==
    [][PollStep =>
          /\ ws_failed # "None" =>
                 /\ server_running' = FALSE
                 /\ int_sleeper' = TRUE
                 /\ main_pc' = "watch"
                 /\ successful_start' # 0
          /\ (ws_failed = "None" /\ poll_ready(mq_running, ws_running, ws_connected)) =>
                 /\ main_pc' = "watch"
                 /\ successful_start' = 0]_vars

-----------------------------------------------------------------------------
\* a worker thread has ended or its handler's running flag is false
WorkerGone ==
    \/ mq_pc \in {"idle", "done", "dead"}
    \/ mq_running = FALSE
    \/ ws_pc \in {"idle", "done", "dead"}
    \/ ws_running = FALSE

\* C27: while main() is in its watch loop with server_running true and the
\* broker thread or the WebSocket thread has ended, or mq_running or
\* ws_running is false, the loop's two checks detect it, and the iteration
\* that makes them clears server_running and sets the interrupter's wake
\* event.
C27_WatchTripsShutdown ==
    [][(main_pc = "watch" /\ server_running = TRUE /\ WorkerGone) =>
          /\ worker_stopped(mq_pc, mq_running) \/ worker_stopped(ws_pc, ws_running)
          /\ MainWatch => (server_running' = FALSE /\ int_sleeper' = TRUE)]_vars

\* the watch loop found ws_running false with the WebSocket thread still
\* alive, and tripped shutdown: no signal came and the interrupter still waits
C27_Witness ==
    /\ main_pc = "watch"
    /\ server_running = FALSE
    /\ int_sleeper = TRUE
    /\ signals = 0
    /\ int_pc = "wait"
    /\ ws_running = FALSE
    /\ ws_pc \notin {"idle", "done", "dead"}
    /\ mq_running = TRUE

-----------------------------------------------------------------------------
\* C28: an interrupter that has woken calls close on the broker handler, on
\* the WebSocket handler and on the metrics handler before it ends: its
\* thread never ends part way through the three calls.
C28_ClosesAllThree ==
    int_pc # "dead"

-----------------------------------------------------------------------------
\* a connect attempt of create_connection against a broker that is down
FailedConnectStep ==
    /\ broker_down
    /\ mq_pc = "connect"
    /\ attempts' = attempts + 1

\* C29: with the broker down and max_retries = 5 the sleeps after the failed
\* connects are 2, 4, 8, 16 and 30 seconds, and no connect attempt follows
\* the fifth sleep.
C29_BackoffSequence ==
    [][FailedConnectStep =>
          /\ attempts' <= max_retries
          /\ slept' = <<2, 4, 8, 16, 30>>[attempts']]_vars

\* C29 as the code has it: the sleeps after the first five failed connects
\* are 2, 4, 6, 8 and 10 seconds, each followed by another attempt; the
\* sixth failed connect is followed by no sleep, clears mq_running, and is
\* the last attempt.
C29_BackoffSequenceAmended ==
    [][FailedConnectStep =>
          /\ attempts' <= max_retries + 1
          /\ attempts' <= max_retries =>
                 /\ slept' = <<2, 4, 6, 8, 10>>[attempts']
                 /\ mq_running' = TRUE
                 /\ mq_pc' = "connect"
          /\ attempts' = max_retries + 1 =>
                 /\ slept' = slept
                 /\ mq_running' = FALSE
                 /\ mq_pc' # "connect"]_vars

\* the sixth connect has failed after a last sleep of 10 seconds
C29_Witness ==
    /\ broker_down
    /\ attempts = max_retries + 1
    /\ slept = 10
    /\ mq_running = FALSE
    /\ connection = "None"

-----------------------------------------------------------------------------
\* a connect attempt made after an established connection was lost
ReconnectStep ==
    /\ mq_pc = "connect"
    /\ connection = "closed"
    /\ attempts' # attempts

\* C30: the connect attempt count is cumulative.  The attempt that follows
\* the loss of an established connection is numbered one more than the last
\* attempt before it, and the reported broker-connect-attempts value goes up
\* by one.
C30_AttemptsCumulative ==
    [][(ReconnectStep /\ metrics_enabled) =>
          /\ attempts' = count_mq_connection_attempts + 1
          /\ attempts' >= 2
          /\ count_mq_connection_attempts' = count_mq_connection_attempts + 1]_vars

-----------------------------------------------------------------------------
\* send_message got as far as its retry loop while the handler was not
\* running or had no consumer registered
PublishWhileStopped ==
    /\ stub_pub.ret \in {"True", "False"}
    /\ (stub_pub.running = FALSE \/ ~stub_pub.tags)

-----------------------------------------------------------------------------
\* C32: every message published to Q_OUT has as its expiration property the
\* decimal string of ttl_from_ws * 1000, the TTL in milliseconds.
C32_ExpirationMillis ==
    \A i \in 1..Len(pub_out) :
        pub_out[i].properties.expiration = ToString(ttl_from_ws * 1000)

-----------------------------------------------------------------------------
\* the WebSocket thread declares the queue and publishes on the broker
\* handler's channel: on_message -> send_message_from_ws -> send_message
WsUsesChannel == on_message /\ channel # "None"

\* the interrupter thread cancels and closes the broker handler's channel and
\* connection: interrupter -> MQHandler.close
IntUsesChannel == IntCloseMqChannel /\ (channel # "None" \/ connection # "None")

\* C33: the broker handler's channel and connection are used by the broker
\* worker thread only: no step of the WebSocket callback thread and no step of
\* the interrupter thread operates on them.
C33_ChannelNotShared == [][~WsUsesChannel /\ ~IntUsesChannel]_vars

-----------------------------------------------------------------------------
\* the interrupter is past the first statement of MQHandler.close
MqCloseCalled == int_pc \in {"close_mq_channel", "close_ws", "done", "dead"}

\* the interrupter has returned from WSHandler.close
WsCloseCalled == int_pc = "done"

\* C34: once close() has been called on a handler, its running flag is never
\* true again, whatever the interleaving of close() with the start of the
\* worker's run method.
C34_ClosedStaysStopped ==
    /\ MqCloseCalled => mq_running # TRUE
    /\ WsCloseCalled => ws_running # TRUE

-----------------------------------------------------------------------------
\* an invocation of MQHandler.__call__ has ended
CallbackEnded == cb_pc = "idle" /\ cur # NoDelivery

\* C35: every invocation of the consumer callback settles its message before
\* it ends: on every path it has called ack or reject(requeue) exactly once.
C35_CallbackSettles == CallbackEnded => cur.acks + cur.rejects = 1

-----------------------------------------------------------------------------
\* in stub mode the callback acked its message and returned
StubAcked == ws_stub /\ CallbackEnded /\ cur.acks = 1 /\ cur.ret = "True"

\* C36: in stub mode a Q_IN message is acked only if its looped-back body was
\* published to Q_OUT: the body of an acked message is in Q_OUT.
C36_StubAckNeedsPublish ==
    StubAcked => \E i \in 1..Len(q_out) : q_out[i] = cur.body

-----------------------------------------------------------------------------
\* C37: the broker publish path is never entered while the broker handler's
\* channel is still null: a frame is handed to send_message_from_ws only
\* after consume_messages has assigned the channel.
C37_PublishAfterChannel == [][on_message => channel # "None"]_vars

-----------------------------------------------------------------------------
\* the step in which run_ws_server leaves its loop and sets ws_failed
ExhaustedStep == WsLoop /\ ws_failed' = AttemptsExceeded

\* C38: run_ws_server sets the failed flag only on a genuine failure, the
\* connect budget exhausted while the handler is still running: never after a
\* close() that ended a session, whatever the attempt counter is at that
\* moment (attempt = ws_max_connect_attempts included).
C38_FailedOnlyWhenRunning ==
    [][(ExhaustedStep /\ attempt > 0 /\ ws_handle = "closed" /\ ws_failed # FailedToConnect)
           => ws_running = TRUE]_vars

-----------------------------------------------------------------------------
\* the reporter is between two iterations
BetweenIterations == rep_pc \in {"test", "done"} /\ rep_iters > 0

\* C39: the reporter loses no increment: between iterations the deltas put
\* for each counter add up to the sample kept for it, and no delta put is
\* negative.
C39_NoIncrementLost ==
    /\ rep_delta >= 0
    /\ BetweenIterations =>
           \A k \in 1..Len(CounterNames) :
               rep_emitted[CounterNames[k]] = rep_last[CounterNames[k]]

-----------------------------------------------------------------------------
\* sessions run_ws_server has opened since attempt was last 0: those that
\* ended within the window, and the one under way
SessionsSinceReset == short_sessions + (IF ws_pc = "session" THEN 1 ELSE 0)

\* the top of an iteration of run_ws_server finds ws_running false
LoopTopStopped == WsLoop /\ ws_running = FALSE

\* C40: in run_ws_server 0 <= attempt <= ws_max_connect_attempts always, the
\* loop opens at most ws_max_connect_attempts sessions between two resets of
\* attempt, and an iteration that finds ws_running false at its top returns
\* without opening a session.
C40_AttemptWithinBudget ==
    /\ [](/\ 0 <= attempt
          /\ attempt <= ws_max_connect_attempts
          /\ SessionsSinceReset <= ws_max_connect_attempts)
    /\ [][LoopTopStopped => /\ ws_pc' = "done"
                            /\ ws_handle' = ws_handle
                            /\ ws_connected' = ws_connected]_vars

\* the second iteration found the handler closed after one short session and
\* returned with the budget used up but no failure recorded
C40_Witness ==
    /\ ~ws_stub
    /\ ws_max_connect_attempts = MaxConnectAttempts
    /\ attempt = ws_max_connect_attempts
    /\ short_sessions = 1
    /\ ws_running = FALSE
    /\ ws_pc = "done"
    /\ ws_failed # AttemptsExceeded

=============================================================================
